---- MODULE Spec2Model ----
(***************************************************************************)
(* Verification model of the PO dashboard's client services.              *)
(*                                                                         *)
(* Part 1: the response normalizer of src/lib/ai-invoice-service.ts       *)
(* (validateAndNormalizeInvoiceResponse, generateFallbackInvoiceId), a    *)
(* pure function over JSON values, checked under SpecNormalize.           *)
(* Part 2: generateAIInvoice against an opaque HTTP backend, checked      *)
(* under SpecGenerate.                                                     *)
(*                                                                         *)
(* JavaScript values are tagged records.  Strings are sequences of        *)
(* tokens: single characters where the code looks at characters (trim,    *)
(* Number parsing, the fallback id), whole words in error messages, where *)
(* the code only tests for the word "fetch".  Numbers are fixed-point     *)
(* with one decimal digit: Num(n) stands for n/10.                        *)
(***************************************************************************)
EXTENDS Integers, Sequences, FiniteSets, TLC

VARIABLES
    raw,        \* normalizer input: the parsed JSON value
    hint,       \* normalizer input: the poNumber argument (Undef when omitted)
    nres,       \* normalizer outcome, Pending before the call
    apiBase,    \* TRUE iff NEXT_PUBLIC_API_BASE_URL is set
    db,         \* backend store: PO number -> stored record body, or NoRecord
    call,       \* the generateAIInvoice invocation in progress / last finished
    persisted,  \* POs for which an earlier invocation generated and stored an invoice
    op,         \* the updateInvoice / sendReminder / sendInvoice invocation in progress / last finished
    errors,     \* InvoiceErrorHandler.errors: the buffer, a sequence of object references
    heap,       \* the InvoiceError objects still referred to, by reference
    logged,     \* every InvoiceError as logError built it, in call order
    snap,       \* the array a caller holds from its last getErrors call
    store,      \* localStorage: the entries <<key, value>> in the order key(i) lists them
    clock,      \* Date.now(), in minutes
    act,        \* the last call of the reminder activity tracker and what it returned
    dlg         \* the state of a send dialog (reminder or invoice) and of its handler

vars == <<raw, hint, nres, apiBase, db, call, persisted, op, errors, heap, logged, snap,
          store, clock, act, dlg>>

\* the state of the error aggregator
aggVars == <<errors, heap, logged, snap>>

\* the activity cache and the dialog
uiVars == <<store, clock, act, dlg>>

-----------------------------------------------------------------------------
(* JavaScript values *)

Undef == [t |-> "undefined"]
Null == [t |-> "null"]
NaN == [t |-> "NaN"]
Bool(b) == [t |-> "boolean", b |-> b]
Num(n) == [t |-> "number", n |-> n]
Dec(i, f) == Num(10 * i + f)
Whole(i) == Dec(i, 0)
Str(s) == [t |-> "string", s |-> s]
Arr(a) == [t |-> "array", a |-> a]
Obj(f) == [t |-> "object", f |-> f]

EmptyObj == Obj([k \in {} |-> Undef])

\* typeof v
TypeOf(v) ==
    CASE v.t \in {"null", "array", "object"} -> "object"
      [] v.t \in {"number", "NaN"} -> "number"
      [] OTHER -> v.t

\* ToBoolean(v): what `!v`, `a || b` and `if (v)` test
Truthy(v) ==
    CASE v.t \in {"undefined", "null", "NaN"} -> FALSE
      [] v.t = "boolean" -> v.b
      [] v.t = "number" -> v.n # 0
      [] v.t = "string" -> v.s # <<>>
      [] OTHER -> TRUE

\* a || b
JsOr(a, b) == IF Truthy(a) THEN a ELSE b

IsNullish(v) == v.t \in {"undefined", "null"}

\* v[k] / v.k on a non-nullish value: own keys of plain objects, undefined
\* on primitives and arrays (none of the keys read is a prototype member)
Get(v, k) == IF v.t = "object" /\ k \in DOMAIN v.f THEN v.f[k] ELSE Undef

\* v?.k
OptGet(v, k) == IF IsNullish(v) THEN Undef ELSE Get(v, k)

-----------------------------------------------------------------------------
(* Strings *)

Space == " "
DigitChars == <<"0", "1", "2", "3", "4", "5", "6", "7", "8", "9">>
IsDigit(c) == \E d \in 1..10 : DigitChars[d] = c
DigitVal(c) == (CHOOSE d \in 1..10 : DigitChars[d] = c) - 1
AllDigits(s) == \A i \in 1..Len(s) : IsDigit(s[i])

RECURSIVE TrimStart(_)
TrimStart(s) == IF s # <<>> /\ Head(s) = Space THEN TrimStart(Tail(s)) ELSE s

RECURSIVE TrimEnd(_)
TrimEnd(s) ==
    IF s # <<>> /\ s[Len(s)] = Space THEN TrimEnd(SubSeq(s, 1, Len(s) - 1)) ELSE s

\* String.prototype.trim
Trim(s) == TrimEnd(TrimStart(s))

\* value of a digit string, most significant digit first
RECURSIVE IntVal(_)
IntVal(s) ==
    IF s = <<>> THEN 0
    ELSE 10 * IntVal(SubSeq(s, 1, Len(s) - 1)) + DigitVal(s[Len(s)])

\* Number.prototype.toString for a non-negative integer
RECURSIVE Digits(_)
Digits(n) ==
    IF n < 10 THEN <<DigitChars[n + 1]>>
    ELSE Digits(n \div 10) \o <<DigitChars[(n % 10) + 1]>>

\* String.prototype.padStart(width, "0")
RECURSIVE PadStart(_, _)
PadStart(s, width) == IF Len(s) >= width THEN s ELSE PadStart(<<"0">> \o s, width)

\* s.includes(word), on token sequences
Includes(s, word) == \E i \in 1..Len(s) : s[i] = word

-----------------------------------------------------------------------------
(* Number(v) *)

\* StringToNumber on an unsigned, already trimmed literal: digits with at
\* most one "." and at most one fractional digit (the fixed-point scale)
UnsignedToNumber(u) ==
    IF u = <<>> THEN NaN
    ELSE IF AllDigits(u) THEN Whole(IntVal(u))
    ELSE IF \E i \in 1..Len(u) :
                /\ u[i] = "."
                /\ Len(u) > 1
                /\ Len(u) - i <= 1
                /\ AllDigits(SubSeq(u, 1, i - 1))
                /\ AllDigits(SubSeq(u, i + 1, Len(u)))
         THEN LET i == CHOOSE j \in 1..Len(u) : u[j] = "."
              IN Dec(IntVal(SubSeq(u, 1, i - 1)), IntVal(SubSeq(u, i + 1, Len(u))))
    ELSE NaN

\* StringToNumber: surrounding whitespace ignored, "" is 0, optional sign
StringToNumber(s) ==
    LET u == Trim(s)
    IN  IF u = <<>> THEN Whole(0)
        ELSE IF Head(u) = "-"
             THEN LET m == UnsignedToNumber(Tail(u))
                  IN IF m.t = "number" THEN Num(0 - m.n) ELSE NaN
        ELSE UnsignedToNumber(u)

\* Number(v).  An array converts through its join(","): [] is "", a
\* one-element array is that element's string form, longer ones hold a comma.
RECURSIVE ToNumber(_)
ToNumber(v) ==
    CASE v.t = "undefined" -> NaN
      [] v.t = "null" -> Whole(0)
      [] v.t = "boolean" -> IF v.b THEN Whole(1) ELSE Whole(0)
      [] v.t = "number" -> v
      [] v.t = "NaN" -> NaN
      [] v.t = "string" -> StringToNumber(v.s)
      [] v.t = "array" ->
            IF Len(v.a) = 0 THEN Whole(0)
            ELSE IF Len(v.a) > 1 THEN NaN
            ELSE IF v.a[1].t = "boolean" THEN NaN
            ELSE ToNumber(v.a[1])
      [] OTHER -> NaN

-----------------------------------------------------------------------------
(* generateFallbackInvoiceId and validateAndNormalizeInvoiceResponse *)

MsPerDay == 86400000
DueDays == 30

\* new Date(ms).toISOString().split("T")[0]: the calendar day of ms, kept as
\* the day number since the epoch
IsoDate(ms) == Str(<<"D">> \o Digits(ms \div MsPerDay))
TodayIso(now) == IsoDate(now)
DueIso(now) == Str(<<"D">> \o Digits((now \div MsPerDay) + DueDays))

\* `INV-${poNumber}-${Date.now()}-${floor(random()*1000) padded to 3}`
generateFallbackInvoiceId(poNumber, now, rnd) ==
    <<"I", "N", "V", "-">> \o poNumber \o <<"-">> \o Digits(now)
        \o <<"-">> \o PadStart(Digits(rnd), 3)

possibleWrappers == <<"data", "invoice", "result", "response">>

IsWrapper(rawResponse, w) ==
    Truthy(Get(rawResponse, w)) /\ TypeOf(Get(rawResponse, w)) = "object"

\* the wrapper loop: first candidate that is a truthy typeof-"object" value
RECURSIVE UnwrapFrom(_, _)
UnwrapFrom(rawResponse, i) ==
    IF i > Len(possibleWrappers) THEN rawResponse
    ELSE IF IsWrapper(rawResponse, possibleWrappers[i])
         THEN Get(rawResponse, possibleWrappers[i])
    ELSE UnwrapFrom(rawResponse, i + 1)

\* mutant of actualDataOf: the loop without its `break`, the last match wins
RECURSIVE UnwrapLast(_, _)
UnwrapLast(rawResponse, i) ==
    IF i = 0 THEN rawResponse
    ELSE IF IsWrapper(rawResponse, possibleWrappers[i])
         THEN Get(rawResponse, possibleWrappers[i])
    ELSE UnwrapLast(rawResponse, i - 1)

actualDataOf_NoBreak(rawResponse) == UnwrapLast(rawResponse, Len(possibleWrappers))

actualDataOf(rawResponse) == UnwrapFrom(rawResponse, 1)

\* actualData.invoice_id || actualData.invoiceId || actualData.id || actualData.invoice_number
RawInvoiceId(d) ==
    JsOr(JsOr(JsOr(Get(d, "invoice_id"), Get(d, "invoiceId")), Get(d, "id")),
         Get(d, "invoice_number"))

\* !invoiceId || typeof invoiceId !== "string" || invoiceId.trim() === ""
InvoiceIdInvalid(v) ==
    \/ ~Truthy(v)
    \/ TypeOf(v) # "string"
    \/ Trim(v.s) = <<>>

\* a || b || dflt for a field with a snake_case and a camelCase spelling
Field2(d, snake, camel, dflt) == JsOr(JsOr(Get(d, snake), Get(d, camel)), dflt)

NormBillToField(d, k, dflt) ==
    JsOr(JsOr(OptGet(Get(d, "bill_to"), k), OptGet(Get(d, "billTo"), k)), dflt)

NormBillTo(d) ==
    [company |-> NormBillToField(d, "company", Str(<<"Unknown Company">>)),
     contact |-> NormBillToField(d, "contact", Str(<<"Unknown Contact">>)),
     address |-> NormBillToField(d, "address", Str(<<"Unknown Address">>)),
     phone   |-> NormBillToField(d, "phone", Str(<<>>)),
     email   |-> NormBillToField(d, "email", Str(<<>>))]

NormVendorField(d, k, dflt) == JsOr(OptGet(Get(d, "vendor"), k), dflt)

NormVendor(d) ==
    [company |-> NormVendorField(d, "company", Str(<<"Unknown Vendor">>)),
     contact |-> NormVendorField(d, "contact", Str(<<"Unknown Contact">>)),
     address |-> NormVendorField(d, "address", Str(<<"Unknown Address">>)),
     phone   |-> NormVendorField(d, "phone", Str(<<>>)),
     email   |-> NormVendorField(d, "email", Str(<<>>))]

\* Number(item.qty) || 1
NormQty(item) == JsOr(ToNumber(Get(item, "qty")), Whole(1))

\* Number(item.unit_price) || Number(item.unitPrice) || 0
NormUnitPrice(item) ==
    JsOr(JsOr(ToNumber(Get(item, "unit_price")), ToNumber(Get(item, "unitPrice"))),
         Whole(0))

\* the map callback, for an element that is not null
NormItem(item, index) ==
    [description |-> JsOr(Get(item, "description"),
                          Str(<<"Item ">> \o Digits(index + 1))),
     qty         |-> NormQty(item),
     unit        |-> JsOr(Get(item, "unit"), Str(<<"Each">>)),
     unit_price  |-> NormUnitPrice(item),
     total       |-> JsOr(ToNumber(Get(item, "total")), Whole(0))]

\* item.description on a null element raises a TypeError
ItemsThrow(d) ==
    /\ Get(d, "items").t = "array"
    /\ \E i \in 1..Len(Get(d, "items").a) : IsNullish(Get(d, "items").a[i])

NullItemMessage == <<"Cannot read properties of null (reading 'description')">>

\* Array.isArray(actualData.items) ? actualData.items.map(...) : []
NormItems(d) ==
    IF Get(d, "items").t = "array"
    THEN [i \in 1..Len(Get(d, "items").a) |-> NormItem(Get(d, "items").a[i], i - 1)]
    ELSE <<>>

NormSummaryField(d, k) == JsOr(ToNumber(OptGet(Get(d, "summary"), k)), Whole(0))

NormSummary(d) ==
    [subtotal |-> NormSummaryField(d, "subtotal"),
     discount |-> NormSummaryField(d, "discount"),
     freight  |-> NormSummaryField(d, "freight"),
     tax      |-> NormSummaryField(d, "tax"),
     total    |-> NormSummaryField(d, "total")]

\* mutant of NormNotes: the `|| ""` default dropped
NormNotes_NoDefault(d) == Get(d, "notes")

NormNotes(d) == JsOr(Get(d, "notes"), Str(<<>>))

\* the object literal of lines 86-127
NormalizedResponse(d, invoiceId, now) ==
    [invoice_id      |-> Str(Trim(invoiceId)),
     invoice_date    |-> Field2(d, "invoice_date", "invoiceDate", TodayIso(now)),
     due_date        |-> Field2(d, "due_date", "dueDate", DueIso(now)),
     payment_terms   |-> Field2(d, "payment_terms", "paymentTerms", Str(<<"Net 30">>)),
     shipping_method |-> Field2(d, "shipping_method", "shippingMethod", Str(<<"Standard">>)),
     bill_to         |-> NormBillTo(d),
     vendor          |-> NormVendor(d),
     items           |-> NormItems(d),
     summary         |-> NormSummary(d),
     notes           |-> NormNotes(d),
     payment_status  |-> Field2(d, "payment_status", "paymentStatus", Str(<<"Pending">>))]

\* outcomes of a call of the normalizer
Pending == [kind |-> "pending"]
RetNull == [kind |-> "null"]
Threw(msg) == [kind |-> "throw", msg |-> msg]
RetInvoice(inv) == [kind |-> "invoice", inv |-> inv]

\* lines 57-130, on the unwrapped object.  poNumber is a JS value: Undef
\* when the argument is omitted.
NormalizeData(d, poNumber, now, rnd) ==
    LET found == RawInvoiceId(d)
    IN  IF InvoiceIdInvalid(found) /\ ~Truthy(poNumber) THEN RetNull
        ELSE LET invoiceId ==
                     IF InvoiceIdInvalid(found)
                     THEN generateFallbackInvoiceId(poNumber.s, now, rnd)
                     ELSE found.s
             IN  IF ItemsThrow(d) THEN Threw(NullItemMessage)
                 ELSE RetInvoice(NormalizedResponse(d, invoiceId, now))

validateAndNormalizeInvoiceResponse(rawResponse, poNumber, now, rnd) ==
    IF ~Truthy(rawResponse) \/ TypeOf(rawResponse) # "object" THEN RetNull
    ELSE NormalizeData(actualDataOf(rawResponse), poNumber, now, rnd)

-----------------------------------------------------------------------------
(* Inputs of the normalizer *)

MaxItems == 2

\* Date.now() and Math.floor(Math.random() * 1000) readings
Clock == {5, 3 * MsPerDay + 17}
Rnd == {0, 7, 42, 999}

PO9 == <<"P", "O", "-", "9">>
PO7 == <<"P", "7">>
POs == {PO9, PO7}

\* an object from a key -> value function, keys mapped to Undef left out
ObjOf(p) == Obj([k \in {j \in DOMAIN p : p[j] # Undef} |-> p[k]])

\* o with key k set to v (left out when v is Undef)
With(o, k, v) ==
    IF v = Undef THEN o
    ELSE Obj([j \in DOMAIN o.f \cup {k} |-> IF j = k THEN v ELSE o.f[j]])

IdKeys == <<"invoice_id", "invoiceId", "id", "invoice_number">>
IdKeySet == {IdKeys[i] : i \in 1..Len(IdKeys)}

IdVals ==
    {Undef, Null, Str(<<>>), Str(<<" ">>), Str(<<"A", "1">>),
     Str(<<" ", "B", "2", " ">>), Whole(5)}

ScalarVals ==
    {Undef, Null, Str(<<>>), Str(<<"v">>), Whole(0), Whole(7), Bool(FALSE), EmptyObj}

NumVals ==
    {Undef, Null, Whole(0), Whole(3), Dec(10, 5), Num(-40), Str(<<"3">>),
     Str(<<"1", "0", ".", "5">>), Str(<<"a", "b", "c">>), Str(<<>>),
     Str(<<" ", "7", " ">>), Str(<<"0">>), Str(<<"-", "2">>), Bool(TRUE),
     Arr(<<>>), Arr(<<Whole(5)>>), EmptyObj}

PriceVals ==
    {Undef, Null, Whole(0), Whole(5), Str(<<"1", "0", ".", "5">>),
     Str(<<"a", "b", "c">>), Str(<<"0">>)}

\* objects with and without an identifier, the carriers of the other fields
WithId == ObjOf([k \in {"invoice_id"} |-> Str(<<"X", "1">>)])
Carriers == {WithId, EmptyObj}

IdObjs == {ObjOf(p) : p \in [IdKeySet -> IdVals]}

ScalarPairs ==
    {<<"invoice_date", "invoiceDate">>, <<"due_date", "dueDate">>,
     <<"payment_terms", "paymentTerms">>, <<"shipping_method", "shippingMethod">>,
     <<"payment_status", "paymentStatus">>}

ScalarObjs ==
    {With(With(c, pr[1], v1), pr[2], v2) :
        c \in Carriers, pr \in ScalarPairs, v1 \in ScalarVals, v2 \in ScalarVals}
    \cup {With(c, "notes", v) : c \in Carriers, v \in ScalarVals}

ContactKeys == {"company", "contact", "address", "phone", "email"}

ContactVals ==
    {Undef, Null, Str(<<"s">>), Whole(3), EmptyObj}
    \cup {ObjOf([j \in {k} |-> v]) :
            k \in ContactKeys, v \in {Null, Str(<<>>), Str(<<"v">>), Whole(0)}}
    \cup {Obj([k \in ContactKeys |-> Str(<<k>>)])}

ContactObjs ==
    {With(With(c, "bill_to", v1), "billTo", v2) :
        c \in Carriers, v1 \in ContactVals, v2 \in ContactVals}
    \cup {With(c, "vendor", v) : c \in Carriers, v \in ContactVals}

SummaryKeys == {"subtotal", "discount", "freight", "tax", "total"}

SummaryObjs ==
    {With(c, "summary", v) :
        c \in Carriers,
        v \in {Null, Str(<<"s">>), EmptyObj}
              \cup {ObjOf([j \in {k} |-> n]) : k \in SummaryKeys, n \in NumVals}}

ItemVals ==
    {Null, Whole(5), Str(<<"s">>), EmptyObj}
    \cup {ObjOf([j \in {"qty"} |-> q]) : q \in NumVals}
    \cup {ObjOf([j \in {"unit_price", "unitPrice"} |->
                    IF j = "unit_price" THEN u ELSE c]) :
            u \in PriceVals, c \in PriceVals}
    \cup {ObjOf([j \in {"total"} |-> n]) : n \in NumVals}
    \cup {ObjOf([j \in {k} |-> v]) : k \in {"description", "unit"}, v \in ScalarVals}

CoreItems ==
    {Null, EmptyObj, Whole(5),
     ObjOf([j \in {"qty", "unit_price"} |->
              IF j = "qty" THEN Str(<<"3">>) ELSE Str(<<"1", "0", ".", "5">>)]),
     ObjOf([j \in {"qty", "unit_price", "unitPrice"} |->
              IF j = "unitPrice" THEN Whole(5) ELSE Whole(0)])}

RECURSIVE SeqsUpTo(_, _)
SeqsUpTo(S, n) ==
    IF n = 0 THEN {<<>>}
    ELSE LET shorter == SeqsUpTo(S, n - 1)
         IN shorter \cup {Append(q, x) : q \in shorter, x \in S}

ItemsVals ==
    {Null, Str(<<"s">>), EmptyObj}
    \cup {Arr(<<x>>) : x \in ItemVals}
    \cup {Arr(q) : q \in SeqsUpTo(CoreItems, MaxItems)}

ItemsObjs == {With(c, "items", v) : c \in Carriers, v \in ItemsVals}

WrapperSet == {possibleWrappers[i] : i \in 1..Len(possibleWrappers)}

\* what a wrapper key w may hold; the nested object names its key in its id
WrapVals(w) ==
    {Undef, Null, Str(<<"s">>), Arr(<<>>),
     ObjOf([k \in {"notes"} |-> Str(<<"in ", w>>)]),
     ObjOf([k \in {"invoice_id", "notes"} |->
              IF k = "invoice_id" THEN Str(<<"I", "-", w>>) ELSE Str(<<"in ", w>>)])}

TopParts ==
    {EmptyObj,
     ObjOf([k \in {"invoice_id", "notes"} |->
              IF k = "invoice_id" THEN Str(<<"T", "0">>) ELSE Str(<<"top">>)])}

Merge(a, b) ==
    Obj([k \in DOMAIN a.f \cup DOMAIN b.f |-> IF k \in DOMAIN b.f THEN b.f[k] ELSE a.f[k]])

WrappedObjs ==
    {Merge(top, ObjOf(p)) :
        top \in TopParts,
        p \in {q \in [WrapperSet -> UNION {WrapVals(w) : w \in WrapperSet}] :
                 \A w \in WrapperSet : q[w] \in WrapVals(w)}}
    \cup {ObjOf([k \in {"data"} |-> ObjOf([j \in {"data"} |-> WithId])])}

\* JSON values that are not objects, and a top-level array
NonObjects == {Null, Whole(5), Str(<<"s">>), Bool(TRUE), Arr(<<>>), Arr(<<WithId>>)}

RawInputs ==
    IdObjs \cup ScalarObjs \cup ContactObjs \cup SummaryObjs \cup ItemsObjs
        \cup WrappedObjs \cup NonObjects

Hints == {Undef} \cup {Str(po) : po \in POs}

-----------------------------------------------------------------------------
(* SpecNormalize: one call of the normalizer on a drawn input *)

NoRecord == [t |-> "none"]
NoOutcome == [kind |-> "none"]
NoResult == [success |-> FALSE, invoice |-> Undef, error |-> Undef,
             source |-> "none", rawResponse |-> Undef]

\* no invocation yet
IdleCall ==
    [pc |-> "idle", po |-> <<>>, reqs |-> <<>>, check |-> NoOutcome,
     gen |-> NoOutcome, save |-> NoOutcome, normalized |-> Undef,
     result |-> NoResult, hadPersisted |-> FALSE]

\* no updateInvoice / sendReminder / sendInvoice invocation yet
IdleOp ==
    [name |-> "none", pc |-> "idle", args |-> <<>>, reqs |-> <<>>,
     ans |-> NoOutcome, result |-> NoOutcome, thrown |-> Undef]

\* `private errors: InvoiceError[] = []`, nothing handed out
AggregatorIdle ==
    /\ errors = <<>>
    /\ heap = <<>>
    /\ logged = <<>>
    /\ snap = <<>>

\* no call of the activity tracker yet
NoAct == [fn |-> "none", po |-> <<>>, stored |-> FALSE, ret |-> Null]

\* a dialog as mounted: useState(false), useState(false), useState(null)
IdleDialog(kind) ==
    [kind |-> kind, isOpen |-> FALSE, isSending |-> FALSE, sendResult |-> Null,
     pc |-> "idle", timers |-> 0, sent |-> NoOutcome, audit |-> NoOutcome,
     posts |-> <<>>, reported |-> Null]

\* empty storage, clock at 0, dialog mounted and closed
UiIdle ==
    /\ store = <<>>
    /\ clock = 0
    /\ act = NoAct
    /\ dlg = IdleDialog("reminder")

GenerateIdle ==
    /\ apiBase = TRUE
    /\ db = [po \in POs |-> NoRecord]
    /\ call = IdleCall
    /\ persisted = {}
    /\ op = IdleOp
    /\ AggregatorIdle
    /\ UiIdle

InitNormalize ==
    /\ raw \in RawInputs
    /\ hint \in Hints
    /\ nres = Pending
    /\ GenerateIdle

Normalize ==
    /\ nres = Pending
    /\ \E now \in Clock, rnd \in Rnd :
          nres' = validateAndNormalizeInvoiceResponse(raw, hint, now, rnd)
    /\ UNCHANGED <<raw, hint, apiBase, db, call, persisted, op, aggVars, uiVars>>

NextNormalize == Normalize

SpecNormalize == InitNormalize /\ [][NextNormalize]_vars

-----------------------------------------------------------------------------
(* The HTTP backend as generateAIInvoice sees it *)

\* fetch() rejects: a TypeError whose message the runtime chooses
Reject(m) == [kind |-> "reject", msg |-> m]
\* fetch() resolves with a Response
Response(status, statusText, body) ==
    [kind |-> "response", status |-> status, statusText |-> statusText, body |-> body]
\* the body is JSON text for the value v
JsonBody(v) == [kind |-> "json", v |-> v]
\* the body is text that is not JSON
TextBody(txt) == [kind |-> "text", txt |-> txt]
\* reading the body rejects (the connection drops after the headers)
BrokenBody(m) == [kind |-> "broken", msg |-> m]

\* response.ok
Ok(o) == o.status >= 200 /\ o.status <= 299

\* messages of the TypeError of a failed fetch: Chromium, Firefox, undici
\* and WebKit wordings
FailedToFetch == <<"Failed to ", "fetch">>
NetworkErrorFetch == <<"NetworkError when attempting to ", "fetch", " resource.">>
FetchFailed == <<"fetch", " failed">>
LoadFailed == <<"Load failed">>
TransportMessages == {FailedToFetch, NetworkErrorFetch, FetchFailed, LoadFailed}
\* messages of a body read that fails mid-stream
BodyMessages == {NetworkErrorFetch, <<"network error">>}

HtmlText == <<"<html>">>
\* message of the SyntaxError JSON.parse raises on text that is not JSON
JsonParseMessage(txt) == <<"Unexpected token ">> \o txt \o <<" is not valid JSON">>
StatusTexts == {<<>>, <<"Internal Server Error">>}

\* bodies of a non-2xx answer
ErrorBodies ==
    {JsonBody(ObjOf([k \in {"message"} |-> Str(<<"quota exceeded">>)])),
     JsonBody(ObjOf([k \in {"error"} |-> Str(<<"bad po">>)])),
     JsonBody(ObjOf([k \in {"message", "error"} |->
                       IF k = "message" THEN Str(<<>>) ELSE Str(<<"bad po">>)])),
     JsonBody(EmptyObj), JsonBody(Null), TextBody(HtmlText)}

\* the scenario body {data: {id: "X1", items: [{qty: 2, unit_price: "5"}]}}
ScenarioBody ==
    ObjOf([k \in {"data"} |->
        ObjOf([j \in {"id", "items"} |->
            IF j = "id" THEN Str(<<"X", "1">>)
            ELSE Arr(<<ObjOf([h \in {"qty", "unit_price"} |->
                          IF h = "qty" THEN Whole(2) ELSE Str(<<"5">>)])>>)])])

\* 2xx JSON bodies of the generation endpoint
GenBodies ==
    {ScenarioBody, WithId, EmptyObj, With(WithId, "items", Arr(<<Null>>)),
     With(EmptyObj, "notes", Str(<<"n">>)), Null, Whole(5), Arr(<<>>)}

GenOutcomes ==
    {Reject(m) : m \in TransportMessages}
    \cup {Response(500, st, b) : st \in StatusTexts, b \in ErrorBodies}
    \cup {Response(200, <<"OK">>, BrokenBody(m)) : m \in BodyMessages}
    \cup {Response(200, <<"OK">>, TextBody(HtmlText))}
    \cup {Response(200, <<"OK">>, JsonBody(v)) : v \in GenBodies}

\* 2xx JSON bodies of the lookup that are not the stored record
ExistBodies == {EmptyObj, Arr(<<>>), Null, With(WithId, "items", Arr(<<Null>>))}

\* answers to GET /invoices/by-po/{po}: 404 while nothing is stored, the
\* stored record once there is one, and at any time a failure or a stray body
CheckOutcomes(po) ==
    {Reject(m) : m \in TransportMessages}
    \cup {Response(500, <<>>, b) : b \in {JsonBody(EmptyObj), TextBody(HtmlText)}}
    \cup {Response(200, <<"OK">>, BrokenBody(m)) : m \in BodyMessages}
    \cup {Response(200, <<"OK">>, TextBody(HtmlText))}
    \cup {Response(200, <<"OK">>, JsonBody(v)) : v \in ExistBodies}
    \cup (IF db[po] = NoRecord
          THEN {Response(404, <<"Not Found">>, JsonBody(EmptyObj))}
          ELSE {Response(200, <<"OK">>, JsonBody(db[po]))})

\* answers to POST /invoices
SaveOutcomes ==
    {Reject(m) : m \in TransportMessages}
    \cup {Response(500, <<>>, JsonBody(EmptyObj)), Response(201, <<"Created">>, JsonBody(EmptyObj))}

GetByPo == "GET /invoices/by-po"
PostInvoices == "POST /invoices"
PostAiInvoice == "POST /ai/invoice"

\* mutant of StoredRecord: the `...invoice` spread left out of the payload
StoredRecord_NoInvoice(invoice, poNumber, now) ==
    Obj([k \in {"po_number", "created_at", "updated_at"} |->
        IF k = "po_number" THEN Str(poNumber) ELSE Str(<<"T">> \o Digits(now))])

\* JSON.stringify({...invoice, po_number, created_at, updated_at}) as the
\* backend parses it
StoredRecord(invoice, poNumber, now) ==
    Obj([k \in DOMAIN invoice \cup {"po_number", "created_at", "updated_at"} |->
        CASE k \in {"bill_to", "vendor", "summary"} -> Obj(invoice[k])
          [] k = "items" -> Arr([i \in 1..Len(invoice.items) |-> Obj(invoice.items[i])])
          [] k = "po_number" -> Str(poNumber)
          [] k \in {"created_at", "updated_at"} -> Str(<<"T">> \o Digits(now))
          [] OTHER -> invoice[k]])

-----------------------------------------------------------------------------
(* getExistingInvoiceFromDatabase, saveInvoiceToDatabase, generateAIInvoice *)

Failure(err) ==
    [success |-> FALSE, invoice |-> Undef, error |-> Str(err), source |-> "none",
     rawResponse |-> Undef]

FailureWithRaw(err, rawResponse) ==
    [success |-> FALSE, invoice |-> Undef, error |-> Str(err), source |-> "none",
     rawResponse |-> rawResponse]

Success(invoice, source) ==
    [success |-> TRUE, invoice |-> invoice, error |-> Undef, source |-> source,
     rawResponse |-> Undef]

\* the value getExistingInvoiceFromDatabase resolves to once its GET is
\* answered by o: the normalized invoice, or Undef for its null
getExistingInvoiceFromDatabase(o, poNumber, now, rnd) ==
    IF o.kind = "reject" THEN Undef
    ELSE IF o.status = 404 THEN Undef
    ELSE IF ~Ok(o) THEN Undef
    ELSE IF o.body.kind # "json" THEN Undef
    ELSE LET n == validateAndNormalizeInvoiceResponse(o.body.v, Str(poNumber), now, rnd)
         IN  IF n.kind = "invoice" THEN n.inv ELSE Undef

\* the boolean saveInvoiceToDatabase resolves to once its POST is answered
saveInvoiceToDatabase(o) == IF o.kind = "reject" THEN FALSE ELSE Ok(o)

\* the invoice built in the catch block of generateAIInvoice
FallbackInvoice(po, now, rnd) ==
    [invoice_id      |-> Str(generateFallbackInvoiceId(po, now, rnd)),
     invoice_date    |-> TodayIso(now),
     due_date        |-> DueIso(now),
     payment_terms   |-> Str(<<"Net 30">>),
     shipping_method |-> Str(<<"Standard">>),
     bill_to         |-> [company |-> Str(<<"Unknown Company">>),
                          contact |-> Str(<<"Unknown Contact">>),
                          address |-> Str(<<"Unknown Address">>),
                          phone |-> Str(<<>>), email |-> Str(<<>>)],
     vendor          |-> [company |-> Str(<<"Unknown Vendor">>),
                          contact |-> Str(<<"Unknown Contact">>),
                          address |-> Str(<<"Unknown Address">>),
                          phone |-> Str(<<>>), email |-> Str(<<>>)],
     items           |-> <<>>,
     summary         |-> [subtotal |-> Whole(0), discount |-> Whole(0),
                          freight |-> Whole(0), tax |-> Whole(0), total |-> Whole(0)],
     notes           |-> Str(<<"Fallback invoice generated for PO ">> \o po
                             \o <<" due to API unavailability. Please update with correct information.">>),
     payment_status  |-> Str(<<"Pending">>)]

\* mutant of CatchResult: every caught Error is taken for a network error
CatchResult_AnyError(msg, po, now, rnd) ==
    Success(FallbackInvoice(po, now, rnd), "generated")

\* the outer catch of generateAIInvoice, for a caught Error with message msg
CatchResult(msg, po, now, rnd) ==
    IF Includes(msg, "fetch")
    THEN Success(FallbackInvoice(po, now, rnd), "generated")
    ELSE Failure(msg)

\* `Server responded with ${response.status}`
DefaultErrorMessage(o) == Str(<<"Server responded with ">> \o Digits(o.status))

\* the message reported for a non-2xx answer
ErrorMessageOf(o) ==
    IF o.body.kind = "json" /\ ~IsNullish(o.body.v)
    THEN JsOr(JsOr(Get(o.body.v, "message"), Get(o.body.v, "error")),
              DefaultErrorMessage(o))
    ELSE JsOr(Str(o.statusText), DefaultErrorMessage(o))

\* mutant of GenStep: the placeholder invoice of a failed fetch is persisted
GenStep_PersistFallback(o, po, now, rnd) ==
    [ret |-> FALSE, result |-> Success(FallbackInvoice(po, now, rnd), "generated")]

\* what the generation step of generateAIInvoice comes to once its POST is
\* answered by o: a result to return, or an invoice to persist
GenStep(o, po, now, rnd) ==
    IF o.kind = "reject" THEN [ret |-> TRUE, result |-> CatchResult(o.msg, po, now, rnd)]
    ELSE IF ~Ok(o)
         THEN [ret |-> TRUE,
               result |-> Failure(<<"Failed to generate invoice: ">> \o ErrorMessageOf(o).s)]
    ELSE IF o.body.kind = "broken"
         THEN [ret |-> TRUE, result |-> CatchResult(o.body.msg, po, now, rnd)]
    ELSE IF o.body.kind = "text"
         THEN [ret |-> TRUE,
               result |-> FailureWithRaw(<<"Invalid JSON response from server">>,
                                         Str(o.body.txt))]
    ELSE LET n == validateAndNormalizeInvoiceResponse(o.body.v, Str(po), now, rnd)
         IN  CASE n.kind = "null" ->
                    [ret |-> TRUE,
                     result |-> FailureWithRaw(
                         <<"Invalid response structure from API. The response may be missing required fields.">>,
                         o.body.v)]
               [] n.kind = "throw" ->
                    [ret |-> TRUE, result |-> CatchResult(n.msg, po, now, rnd)]
               [] OTHER -> [ret |-> FALSE, result |-> Success(n.inv, "api")]

\* mutant of ResultAfterSave: a failed save fails the generation
ResultAfterSave_Strict(normalizedInvoice, saved) ==
    IF saved THEN Success(normalizedInvoice, "api")
    ELSE Failure(<<"Failed to save invoice">>)

\* the return after the persistence step, whatever saveInvoiceToDatabase gave
ResultAfterSave(normalizedInvoice, saved) == Success(normalizedInvoice, "api")

\* Date.now() and Math.random() readings during an invocation
GenClock == {3 * MsPerDay + 17}
GenRnd == {7, 999}

\* poNumber as typed by the caller
PoInputs == {<<>>, <<" ">>, PO9, <<" ">> \o PO9 \o <<" ">>, PO7}

Finished == call.pc \in {"idle", "done"}

Done(c, result) == [c EXCEPT !.pc = "done", !.result = result]

\* generateAIInvoice(poNumber) up to its first await that leaves the process;
\* one invocation of the services is followed at a time
Invoke(poNumber) ==
    /\ Finished
    /\ op.pc \in {"idle", "done", "threw"}
    /\ LET po == Trim(poNumber)
           fresh == [IdleCall EXCEPT !.po = po, !.hadPersisted = po \in persisted]
       IN  call' =
             IF poNumber = <<>> \/ po = <<>>
             THEN Done([fresh EXCEPT !.hadPersisted = FALSE],
                       Failure(<<"Purchase Order number is required">>))
             ELSE IF ~apiBase
             THEN Done(fresh, Failure(<<"API configuration error: Base URL not set">>))
             ELSE [fresh EXCEPT !.pc = "check", !.reqs = <<GetByPo>>]
    /\ op' = IdleOp
    /\ UNCHANGED <<raw, hint, nres, apiBase, db, persisted, aggVars, uiVars>>

\* mutant of AfterCheck: the stored invoice does not end the invocation
AfterCheck_AlwaysGenerate(c, o, existing) ==
    [c EXCEPT !.check = o, !.pc = "generate", !.reqs = Append(@, PostAiInvoice)]

\* the invocation once getExistingInvoiceFromDatabase has resolved
AfterCheck(c, o, existing) ==
    IF existing # Undef
    THEN Done([c EXCEPT !.check = o], Success(existing, "database"))
    ELSE [c EXCEPT !.check = o, !.pc = "generate", !.reqs = Append(@, PostAiInvoice)]

ExistenceAnswer ==
    /\ call.pc = "check"
    /\ \E o \in CheckOutcomes(call.po), now \in GenClock, rnd \in GenRnd :
          call' = AfterCheck(call, o,
                             getExistingInvoiceFromDatabase(o, call.po, now, rnd))
    /\ UNCHANGED <<raw, hint, nres, apiBase, db, persisted, op, aggVars, uiVars>>

GenerationAnswer ==
    /\ call.pc = "generate"
    /\ \E o \in GenOutcomes, now \in GenClock, rnd \in GenRnd :
          LET g == GenStep(o, call.po, now, rnd)
          IN  call' =
                IF g.ret THEN Done([call EXCEPT !.gen = o], g.result)
                ELSE [call EXCEPT !.gen = o, !.pc = "save",
                                  !.normalized = g.result.invoice,
                                  !.reqs = Append(@, PostInvoices)]
    /\ UNCHANGED <<raw, hint, nres, apiBase, db, persisted, op, aggVars, uiVars>>

SaveAnswer ==
    /\ call.pc = "save"
    /\ \E o \in SaveOutcomes, now \in GenClock :
          LET saved == saveInvoiceToDatabase(o)
          IN  /\ call' = Done([call EXCEPT !.save = o],
                              ResultAfterSave(call.normalized, saved))
              /\ db' = IF saved
                       THEN [db EXCEPT ![call.po] =
                                StoredRecord(call.normalized, call.po, now)]
                       ELSE db
              /\ persisted' = IF saved THEN persisted \cup {call.po} ELSE persisted
    /\ UNCHANGED <<raw, hint, nres, apiBase, op, aggVars, uiVars>>

InitGenerate ==
    /\ raw = EmptyObj
    /\ hint = Undef
    /\ nres = Pending
    /\ apiBase \in BOOLEAN
    /\ db = [po \in POs |-> NoRecord]
    /\ call = IdleCall
    /\ persisted = {}
    /\ op = IdleOp
    /\ AggregatorIdle
    /\ UiIdle

NextGenerate ==
    \/ \E poNumber \in PoInputs : Invoke(poNumber)
    \/ ExistenceAnswer
    \/ GenerationAnswer
    \/ SaveAnswer

SpecGenerate == InitGenerate /\ [][NextGenerate]_vars

-----------------------------------------------------------------------------
(* updateInvoice (src/lib/ai-invoice-service.ts) and sendReminder,           *)
(* canSendReminder, sendInvoice (src/lib/send-reminder-service.ts)           *)

PutAiInvoice == "PUT /ai/invoice/{id}"
PostSendReminder == "POST /ai/send-reminder"
PostSendInvoice == "POST /ai/send-invoice"

\* the result object of a service; absent keys are Undef
SvcResult(success, message, error, details, invoice) ==
    [success |-> success, message |-> message, error |-> error,
     details |-> details, invoice |-> invoice]

SvcFailure(err) == SvcResult(FALSE, Undef, Str(err), Undef, Undef)

ConfigError == <<"API configuration error: Base URL not set">>

\* an invocation of service `name` with its arguments, nothing done yet
StartOp(name, args) == [IdleOp EXCEPT !.name = name, !.args = args]
\* the invocation has returned `result`
OpDone(o, result) == [o EXCEPT !.pc = "done", !.result = result]
\* mutant of OpRequest: the request is issued again at once
OpRequest_Twice(o, req) ==
    [o EXCEPT !.pc = "wait", !.reqs = Append(Append(@, req), req)]

\* the invocation awaits the answer to its fetch
OpRequest(o, req) == [o EXCEPT !.pc = "wait", !.reqs = Append(@, req)]
\* the invocation ended in an exception that left the function
OpThrew(o, msg) == [o EXCEPT !.pc = "threw", !.thrown = Str(msg)]

LetterChars ==
    <<"A", "B", "C", "D", "E", "F", "G", "H", "I", "J", "K", "L", "M",
      "N", "O", "P", "Q", "R", "S", "T", "U", "V", "W", "X", "Y", "Z",
      "a", "b", "c", "d", "e", "f", "g", "h", "i", "j", "k", "l", "m",
      "n", "o", "p", "q", "r", "s", "t", "u", "v", "w", "x", "y", "z">>

\* /^[A-Z0-9\-_]+$/i .test(s)
poNumberPattern(s) ==
    /\ s # <<>>
    /\ \A i \in 1..Len(s) :
          \/ \E j \in 1..Len(LetterChars) : LetterChars[j] = s[i]
          \/ IsDigit(s[i])
          \/ s[i] \in {"-", "_"}

\* mutant of validatePoNumber: the pattern test left out
validatePoNumber_NoPattern(poNumber) ==
    IF ~Truthy(poNumber) \/ TypeOf(poNumber) # "string"
    THEN Str(<<"PO number is required">>)
    ELSE IF Trim(poNumber.s) = <<>> THEN Str(<<"PO number cannot be empty">>)
    ELSE Null

\* the validation message, or Null when the PO number passes
validatePoNumber(poNumber) ==
    IF ~Truthy(poNumber) \/ TypeOf(poNumber) # "string"
    THEN Str(<<"PO number is required">>)
    ELSE IF Trim(poNumber.s) = <<>> THEN Str(<<"PO number cannot be empty">>)
    ELSE IF ~poNumberPattern(Trim(poNumber.s))
         THEN Str(<<"PO number contains invalid characters">>)
    ELSE Null

canSendReminder(poNumber) == validatePoNumber(poNumber) = Null

\* `${v}` for the values the backend bodies of the model hold
Interp(v) ==
    CASE v.t = "string" -> v.s
      [] v.t = "number" /\ v.n >= 0 /\ v.n % 10 = 0 -> Digits(v.n \div 10)
      [] v.t = "boolean" -> IF v.b THEN <<"true">> ELSE <<"false">>
      [] v.t \in {"undefined", "null", "NaN"} -> <<v.t>>
      [] OTHER -> <<"[object Object]">>

\* message of the TypeError of reading property prop of null
NullReadMessage(prop) == <<"Cannot read properties of null (reading '", prop, "')">>

\* the outer catch of sendReminder / sendInvoice (what = "reminder" / "invoice")
DispatchCatch(msg, what) ==
    IF Includes(msg, "fetch")
    THEN SvcFailure(<<"Network error: Unable to connect to the server. Please check your connection and try again.">>)
    ELSE SvcFailure(<<"Error sending ", what, ": ">> \o msg)

\* the return for a non-2xx answer of the dispatch endpoints
DispatchRefused(o, what) ==
    SvcResult(FALSE, Undef,
              Str(<<"Failed to send ", what, ": ">> \o ErrorMessageOf(o).s),
              Obj([k \in {"status"} |-> Whole(o.status)]), Undef)

\* mutant of sendReminderBegin: the request goes out before the validation
sendReminderBegin_RequestFirst(poNumber) ==
    LET o == StartOp("sendReminder", [poNumber |-> poNumber])
    IN  IF ~apiBase THEN OpDone(o, SvcFailure(ConfigError))
        ELSE IF validatePoNumber(poNumber) # Null
             THEN OpDone(OpRequest(o, PostSendReminder),
                         SvcFailure(validatePoNumber(poNumber).s))
        ELSE OpRequest(o, PostSendReminder)

\* mutant of sendReminderBegin: validation before the configuration check
sendReminderBegin_ValidateFirst(poNumber) ==
    LET o == StartOp("sendReminder", [poNumber |-> poNumber])
    IN  IF validatePoNumber(poNumber) # Null
        THEN OpDone(o, SvcFailure(validatePoNumber(poNumber).s))
        ELSE IF ~apiBase THEN OpDone(o, SvcFailure(ConfigError))
        ELSE OpRequest(o, PostSendReminder)

\* sendReminder(poNumber) up to its fetch
sendReminderBegin(poNumber) ==
    LET o == StartOp("sendReminder", [poNumber |-> poNumber])
    IN  IF ~apiBase THEN OpDone(o, SvcFailure(ConfigError))
        ELSE IF validatePoNumber(poNumber) # Null
             THEN OpDone(o, SvcFailure(validatePoNumber(poNumber).s))
        ELSE OpRequest(o, PostSendReminder)

\* the result of sendReminder once its fetch is answered by o
sendReminderEnd(o, poNumber) ==
    IF o.kind = "reject" THEN DispatchCatch(o.msg, "reminder")
    ELSE IF ~Ok(o) THEN DispatchRefused(o, "reminder")
    ELSE IF o.body.kind = "broken" THEN DispatchCatch(o.body.msg, "reminder")
    ELSE IF o.body.kind = "text"
         THEN DispatchCatch(JsonParseMessage(o.body.txt), "reminder")
    ELSE IF IsNullish(o.body.v) THEN DispatchCatch(NullReadMessage("status"), "reminder")
    ELSE IF Get(o.body.v, "status") = Str(<<"reminder_sent">>)
         THEN SvcResult(TRUE,
                        Str(<<"Reminder successfully sent for Purchase Order ">>
                                \o Trim(poNumber.s)),
                        Undef, Undef, Undef)
    ELSE SvcResult(FALSE, Undef,
                   Str(<<"Unexpected response status: ">>
                           \o Interp(Get(o.body.v, "status"))),
                   o.body.v, Undef)

\* updateInvoice(updatePayload) up to its fetch
updateInvoiceBegin_ValidateFirst(updatePayload) ==
    LET o == StartOp("updateInvoice", [updatePayload |-> updatePayload])
        id == Get(updatePayload, "invoice_id")
    IN  IF ~Truthy(id) \/ Trim(id.s) = <<>>
        THEN OpDone(o, SvcFailure(<<"Invoice ID is required for updates">>))
        ELSE IF ~apiBase THEN OpDone(o, SvcFailure(ConfigError))
        ELSE OpRequest(o, PutAiInvoice)

updateInvoiceBegin(updatePayload) ==
    LET o == StartOp("updateInvoice", [updatePayload |-> updatePayload])
        id == Get(updatePayload, "invoice_id")
    IN  IF ~apiBase THEN OpDone(o, SvcFailure(ConfigError))
        ELSE IF ~Truthy(id) \/ Trim(id.s) = <<>>
             THEN OpDone(o, SvcFailure(<<"Invoice ID is required for updates">>))
        ELSE OpRequest(o, PutAiInvoice)

\* the result of updateInvoice once its fetch is answered by o
updateInvoiceEnd(o, updatePayload, now, rnd) ==
    IF o.kind = "reject" THEN SvcFailure(o.msg)
    ELSE IF ~Ok(o)
         THEN SvcFailure(<<"Failed to update invoice: ">> \o ErrorMessageOf(o).s)
    ELSE IF o.body.kind = "broken" THEN SvcFailure(o.body.msg)
    ELSE IF o.body.kind = "text" THEN SvcFailure(JsonParseMessage(o.body.txt))
    ELSE LET n == validateAndNormalizeInvoiceResponse(
                      o.body.v, Get(updatePayload, "invoice_id"), now, rnd)
         IN  CASE n.kind = "null" ->
                    SvcFailure(<<"Invalid response structure from update API">>)
               [] n.kind = "throw" -> SvcFailure(n.msg)
               [] OTHER -> SvcResult(TRUE, Undef, Undef, Undef, n.inv)

\* toLowerCase().replace(/[^a-z0-9]/g, "") on one token: a character, or
\* one of the company names the model uses as whole words
SanitizeToken(c) ==
    IF \E j \in 1..26 : LetterChars[j] = c
    THEN <<LetterChars[(CHOOSE j \in 1..26 : LetterChars[j] = c) + 26]>>
    ELSE IF (\E j \in 27..52 : LetterChars[j] = c) \/ IsDigit(c) THEN <<c>>
    ELSE CASE c = "Unknown Company" -> <<"unknowncompany">>
           [] c = "Unknown Vendor" -> <<"unknownvendor">>
           [] c = "company" -> <<"company">>
           [] OTHER -> <<>>

RECURSIVE Sanitize(_)
Sanitize(s) == IF s = <<>> THEN <<>> ELSE SanitizeToken(Head(s)) \o Sanitize(Tail(s))

\* a value returned by a helper that may also throw (see Threw)
RetValue(v) == [kind |-> "value", v |-> v]

\* message of the TypeError of calling a method the value does not have
NotAFunction(expr) == <<expr, " is not a function">>

\* getDefaultRecipient(invoiceData): the address, or the TypeError of calling
\* trim / toLowerCase on a truthy value that is not a string
getDefaultRecipient(invoiceData) ==
    LET billEmail == invoiceData.bill_to.email
        vendorEmail == invoiceData.vendor.email
        companyName == JsOr(JsOr(invoiceData.bill_to.company, invoiceData.vendor.company),
                            Str(<<"company">>))
    IN  IF Truthy(billEmail) /\ TypeOf(billEmail) # "string"
        THEN Threw(NotAFunction("invoiceData.bill_to.email.trim"))
        ELSE IF Truthy(billEmail) /\ Trim(billEmail.s) # <<>>
             THEN RetValue(Str(Trim(billEmail.s)))
        ELSE IF Truthy(vendorEmail) /\ TypeOf(vendorEmail) # "string"
             THEN Threw(NotAFunction("invoiceData.vendor.email.trim"))
        ELSE IF Truthy(vendorEmail) /\ Trim(vendorEmail.s) # <<>>
             THEN RetValue(Str(Trim(vendorEmail.s)))
        ELSE IF TypeOf(companyName) # "string"
             THEN Threw(NotAFunction("companyName.toLowerCase"))
        ELSE RetValue(Str(Sanitize(companyName.s) \o <<"@", "example", ".", "com">>))

\* /^[^\s@]+@[^\s@]+\.[^\s@]+$/ .test(s); no token other than "@", "." and
\* Space holds one of these characters
emailRegex(s) ==
    \E i \in 2..Len(s) :
        /\ s[i] = "@"
        /\ \A k \in 1..Len(s) : s[k] # Space /\ (s[k] = "@" => k = i)
        /\ \E j \in (i + 2)..(Len(s) - 1) : s[j] = "."

\* the validation message, or Null when invoice and recipient pass
validateInvoiceData(invoiceData, recipient) ==
    IF ~Truthy(recipient) \/ Trim(recipient.s) = <<>>
    THEN Str(<<"Recipient email address is required">>)
    ELSE IF ~emailRegex(Trim(recipient.s))
         THEN Str(<<"Please provide a valid email address">>)
    ELSE IF ~Truthy(invoiceData.invoice_id) \/ Trim(invoiceData.invoice_id.s) = <<>>
         THEN Str(<<"Invoice ID is missing">>)
    ELSE IF TypeOf(invoiceData.summary.total) # "number"
         THEN Str(<<"Invoice total is invalid">>)
    ELSE IF Len(invoiceData.items) = 0
         THEN Str(<<"Invoice must contain at least one item">>)
    ELSE Null

\* mapInvoiceToPayload raises a TypeError on item.unit_price.toFixed when a
\* unit price is not a number
mapInvoiceToPayloadThrows(invoiceData) ==
    \E i \in 1..Len(invoiceData.items) :
        TypeOf(invoiceData.items[i].unit_price) # "number"

\* sendInvoice(invoiceData, poNumber, recipient) up to its fetch
sendInvoiceBegin(invoiceData, poNumber, recipient) ==
    LET o == StartOp("sendInvoice",
                     [invoiceData |-> invoiceData, poNumber |-> poNumber,
                      recipient |-> recipient])
        dflt == IF Truthy(recipient) THEN RetValue(recipient)
                ELSE getDefaultRecipient(invoiceData)
    IN  IF ~apiBase THEN OpDone(o, SvcFailure(ConfigError))
        ELSE IF dflt.kind = "throw" THEN OpThrew(o, dflt.msg)
        ELSE IF validateInvoiceData(invoiceData, dflt.v) # Null
             THEN OpDone(o, SvcFailure(validateInvoiceData(invoiceData, dflt.v).s))
        ELSE IF mapInvoiceToPayloadThrows(invoiceData)
             THEN OpDone(o, DispatchCatch(NotAFunction("item.unit_price.toFixed"),
                                          "invoice"))
        ELSE OpRequest(o, PostSendInvoice)

\* the result of sendInvoice once its fetch is answered by o
sendInvoiceEnd(o) ==
    IF o.kind = "reject" THEN DispatchCatch(o.msg, "invoice")
    ELSE IF ~Ok(o) THEN DispatchRefused(o, "invoice")
    ELSE IF o.body.kind = "broken" THEN DispatchCatch(o.body.msg, "invoice")
    ELSE IF o.body.kind = "text"
         THEN DispatchCatch(JsonParseMessage(o.body.txt), "invoice")
    ELSE IF IsNullish(o.body.v) THEN DispatchCatch(NullReadMessage("success"), "invoice")
    ELSE IF Truthy(Get(o.body.v, "success"))
         THEN SvcResult(TRUE,
                        JsOr(Get(o.body.v, "message"), Str(<<"Invoice sent successfully">>)),
                        Undef, Undef, Undef)
    ELSE SvcResult(FALSE, Undef,
                   JsOr(Get(o.body.v, "message"),
                        Str(<<"Unknown error occurred while sending invoice">>)),
                   Undef, Undef)

\* poNumber arguments of sendReminder / canSendReminder
ReminderPos ==
    {Undef, Str(<<>>), Str(<<" ">>), Str(PO9), Str(<<" ">> \o PO9 \o <<" ">>),
     Str(<<"p", "o", "_", "1", "-", "A">>), Str(<<"P", "O", " ", "1">>),
     Str(<<"P", "O", "#", "1">>), Str(<<"_">>), Str(<<"P", ".", "1">>)}

\* updatePayload arguments; only invoice_id is read
UpdatePayloads ==
    {ObjOf([k \in {"invoice_id"} |-> v]) :
        v \in {Undef, Str(<<>>), Str(<<" ">>), Str(<<"X", "1">>), Str(<<"Z", "9">>)}}

\* the invoice the normalizer makes of a backend body
InvoiceOf(body) ==
    validateAndNormalizeInvoiceResponse(body, Str(PO9), 3 * MsPerDay + 17, 7).inv

\* invoiceData arguments of sendInvoice: invoices as the normalizer returns
\* them (contact fields are passed through as the backend sent them), and
\* the same with id, total or items edited
SendInvoices ==
    LET core == Get(ScenarioBody, "data")
        address == Str(<<"x", "@", "y", ".", "z">>)
        bases == {InvoiceOf(core),
                  InvoiceOf(With(core, "bill_to", ObjOf([k \in {"email"} |-> address]))),
                  InvoiceOf(With(core, "vendor", ObjOf([k \in {"email"} |-> address]))),
                  InvoiceOf(With(core, "bill_to", ObjOf([k \in {"email"} |-> Whole(5)]))),
                  InvoiceOf(With(core, "bill_to", ObjOf([k \in {"company"} |-> Str(<<"#">>)]))),
                  InvoiceOf(WithId)}
    IN  bases
        \cup {[inv EXCEPT !.invoice_id = Str(<<" ">>)] : inv \in bases}
        \cup {[inv EXCEPT !.summary.total = Str(<<"1", "0">>)] : inv \in bases}
        \cup {[inv EXCEPT !.invoice_id = Str(<<>>), !.summary.total = Str(<<"1", "0">>),
                          !.items = <<>>] : inv \in bases}
        \cup {[inv EXCEPT !.items = [i \in DOMAIN inv.items |->
                                        [inv.items[i] EXCEPT !.unit_price = Str(<<"5">>)]]] :
                 inv \in bases}

\* recipient arguments of sendInvoice
Recipients ==
    {Undef, Str(<<>>), Str(<<" ">>), Str(<<"b", "o", "b">>),
     Str(<<"a", "@", "b", ".", "c">>), Str(<<" ", "a", "@", "b", ".", "c", " ">>),
     Str(<<"a", "@", "b">>)}

\* 2xx JSON bodies of the endpoint each service calls
ServiceBodies(name) ==
    CASE name = "sendReminder" ->
            {ObjOf([k \in {"status"} |-> v]) :
                v \in {Undef, Null, Str(<<"reminder_sent">>), Str(<<"queued">>), Bool(TRUE)}}
            \cup {Null, Str(<<"reminder_sent">>), Arr(<<>>)}
      [] name = "sendInvoice" ->
            {ObjOf([k \in {"success", "message"} |-> IF k = "success" THEN v ELSE m]) :
                v \in {Undef, Null, Bool(TRUE), Bool(FALSE), Str(<<"yes">>),
                       Str(<<"false">>), Whole(1)},
                m \in {Undef, Str(<<"queued for delivery">>)}}
            \cup {Null, Str(<<"ok">>)}
      [] OTHER ->
            {ScenarioBody, WithId, EmptyObj, With(WithId, "items", Arr(<<Null>>)),
             Null, Arr(<<>>)}

\* answers to the request of a service
ServiceOutcomes(name) ==
    {Reject(m) : m \in TransportMessages}
    \cup {Response(500, st, b) : st \in StatusTexts, b \in ErrorBodies}
    \cup {Response(200, <<"OK">>, BrokenBody(m)) : m \in BodyMessages}
    \cup {Response(200, <<"OK">>, TextBody(HtmlText))}
    \cup {Response(200, <<"OK">>, JsonBody(v)) : v \in ServiceBodies(name)}

\* no invocation in progress: the services are followed one invocation at a time
ServiceIdle == call.pc = "idle" /\ op.pc = "idle"

\* the caller has taken the outcome of the finished invocation
ResultTaken ==
    /\ call.pc = "done" \/ op.pc \in {"done", "threw"}
    /\ call' = IdleCall
    /\ op' = IdleOp
    /\ UNCHANGED <<raw, hint, nres, apiBase, db, persisted, aggVars, uiVars>>

InvokeUpdate ==
    /\ ServiceIdle
    /\ \E updatePayload \in UpdatePayloads : op' = updateInvoiceBegin(updatePayload)
    /\ call' = IdleCall
    /\ UNCHANGED <<raw, hint, nres, apiBase, db, persisted, aggVars, uiVars>>

InvokeReminder ==
    /\ ServiceIdle
    /\ \E poNumber \in ReminderPos : op' = sendReminderBegin(poNumber)
    /\ call' = IdleCall
    /\ UNCHANGED <<raw, hint, nres, apiBase, db, persisted, aggVars, uiVars>>

InvokeCanSend ==
    /\ ServiceIdle
    /\ \E poNumber \in ReminderPos :
          op' = OpDone(StartOp("canSendReminder", [poNumber |-> poNumber]),
                       Bool(canSendReminder(poNumber)))
    /\ call' = IdleCall
    /\ UNCHANGED <<raw, hint, nres, apiBase, db, persisted, aggVars, uiVars>>

InvokeSend ==
    /\ ServiceIdle
    /\ \E invoiceData \in SendInvoices, recipient \in Recipients :
          op' = sendInvoiceBegin(invoiceData, Str(PO9), recipient)
    /\ call' = IdleCall
    /\ UNCHANGED <<raw, hint, nres, apiBase, db, persisted, aggVars, uiVars>>

\* the awaited fetch of the service settles and the invocation runs to its return
ServiceAnswer ==
    /\ op.pc = "wait"
    /\ \E o \in ServiceOutcomes(op.name), now \in GenClock, rnd \in GenRnd :
          op' = OpDone([op EXCEPT !.ans = o],
                       CASE op.name = "sendReminder" -> sendReminderEnd(o, op.args.poNumber)
                         [] op.name = "sendInvoice" -> sendInvoiceEnd(o)
                         [] OTHER -> updateInvoiceEnd(o, op.args.updatePayload, now, rnd))
    /\ UNCHANGED <<raw, hint, nres, apiBase, db, call, persisted, aggVars, uiVars>>

NextServices ==
    \/ NextGenerate
    \/ ResultTaken
    \/ InvokeUpdate
    \/ InvokeReminder
    \/ InvokeCanSend
    \/ InvokeSend
    \/ ServiceAnswer

SpecServices == InitGenerate /\ [][NextServices]_vars

-----------------------------------------------------------------------------
(* The error aggregator, src/lib/invoice-error-handler.ts.  An InvoiceError *)
(* is an object: the buffer and every array handed out by getErrors hold    *)
(* references to it, and heap gives the object behind each reference.  The  *)
(* reference of an error is its rank among the logError calls.              *)

MaxErrors == 50

\* logError calls followed
MaxLogs == 60
\* the first VariedLogs calls log any of LogInputs, the later ones RepeatedError
VariedLogs == 2

RepeatedError == ObjOf([poNumber |-> Str(PO7), message |-> Str(<<"Server responded with 500">>)])

LogInputs ==
    {EmptyObj,
     RepeatedError,
     ObjOf([code |-> Str(<<"NETWORK_ERROR">>),
            message |-> Str(<<"Network error occurred. Please check your connection and try again.">>),
            details |-> Str(<<"Load failed">>),
            poNumber |-> Str(PO9)])}

LogChoices == IF Len(logged) < VariedLogs THEN LogInputs ELSE {RepeatedError}

Filters == {Undef, Str(PO7), Str(PO9)}

\* new Date().toISOString(): the clock advances with every logError call
IsoString(tick) == Str(<<"T">> \o Digits(tick))

\* the object literal of lines 21-27
FullError(error, tick) ==
    [code |-> JsOr(Get(error, "code"), Str(<<"UNKNOWN_ERROR">>)),
     message |-> JsOr(Get(error, "message"), Str(<<"An unknown error occurred">>)),
     details |-> Get(error, "details"),
     timestamp |-> IsoString(tick),
     poNumber |-> Get(error, "poNumber")]

SliceLast(s, k) == SubSeq(s, Len(s) - k + 1, Len(s))

Trimmed_KeepOldest(buf) ==
    IF Len(buf) > MaxErrors THEN SubSeq(buf, 1, MaxErrors) ELSE buf

\* `if (this.errors.length > 50) this.errors = this.errors.slice(-50)`
Trimmed(buf) ==
    IF Len(buf) > MaxErrors THEN SliceLast(buf, MaxErrors) ELSE buf

Refs(s) == {s[i] : i \in 1..Len(s)}

othersVars == <<raw, hint, nres, apiBase, db, call, persisted, op, uiVars>>

\* logError(error).  Objects that neither the buffer nor a caller refers to
\* any more leave the heap; the array a caller held is followed up to the
\* next logError call only.
logError(error) ==
    /\ Len(logged) < MaxLogs
    /\ LET ref == Len(logged) + 1
           fullError == FullError(error, ref)
           kept == Trimmed(Append(errors, ref))
       IN  /\ errors' = kept
           /\ heap' = [r \in Refs(kept) |-> IF r = ref THEN fullError ELSE heap[r]]
           /\ logged' = Append(logged, fullError)
    /\ snap' = <<>>
    /\ UNCHANGED othersVars

\* getErrors(poNumber): filter(...) or [...this.errors], a new array of the
\* same objects
getErrors(poNumber) ==
    IF Truthy(poNumber)
    THEN SelectSeq(errors, LAMBDA r : heap[r].poNumber = poNumber)
    ELSE errors

GetErrors ==
    /\ errors # <<>>
    /\ \E poNumber \in Filters : snap' = getErrors(poNumber)
    /\ UNCHANGED <<errors, heap, logged>>
    /\ UNCHANGED othersVars

Untouched == \A r \in DOMAIN heap : heap[r] = logged[r]

\* the caller assigns to a field of an element: result[i].message = "tampered"
\* (one such assignment is followed)
MutateElement ==
    /\ Untouched
    /\ \E i \in 1..Len(snap) :
          heap' = [heap EXCEPT ![snap[i]].message = Str(<<"tampered">>)]
    /\ UNCHANGED <<errors, logged, snap>>
    /\ UNCHANGED othersVars

\* the caller empties the array it got: result.length = 0
MutateSequence ==
    /\ snap # <<>>
    /\ snap' = <<>>
    /\ UNCHANGED <<errors, heap, logged>>
    /\ UNCHANGED othersVars

InitErrors ==
    /\ raw = EmptyObj
    /\ hint = Undef
    /\ nres = Pending
    /\ GenerateIdle

NextErrors ==
    \/ \E error \in LogChoices : logError(error)
    \/ GetErrors
    \/ MutateElement
    \/ MutateSequence

SpecErrors == InitErrors /\ [][NextErrors]_vars

-----------------------------------------------------------------------------
(* The reminder activity cache, src/lib/reminder-activity-tracker.ts.  Time  *)
(* is counted in minutes.  localStorage is the sequence of its entries in    *)
(* the order key(i) lists them: the position of a new key is the browser's   *)
(* choice, and removing an entry moves the later ones down by one.           *)

\* 60 * 60 * 1000 ms
HourMinutes == 60

\* the clock is followed up to MaxClock, advancing by one of ClockSteps
MaxClock == 62
ClockSteps == {30, 31}

TrackPos == {PO7, PO9, <<"P", "8">>}
Statuses == {"sent", "failed"}

\* an entry of the same origin that is not the tracker's
ForeignEntry == [key |-> <<"theme">>, value |-> [kind |-> "text", txt |-> <<"dark">>]]

\* everything but the activity cache at rest
ServicesIdle ==
    /\ raw = EmptyObj
    /\ hint = Undef
    /\ nres = Pending
    /\ apiBase = TRUE
    /\ db = [po \in POs |-> NoRecord]
    /\ call = IdleCall
    /\ persisted = {}
    /\ op = IdleOp
    /\ AggregatorIdle

\* `reminder_activity_${poNumber}`
ActivityKey(poNumber) == <<"reminder_activity_">> \o poNumber

\* key && key.startsWith("reminder_activity_")
IsActivityKey(key) == key # <<>> /\ key[1] = "reminder_activity_"

\* JSON.stringify(activity) and JSON.parse(stored)
Stringify(activity) == [kind |-> "json", v |-> activity]
Parse(stored) == stored.v

\* new Date(timestamp).getTime()
GetTime(timestamp) == IntVal(Tail(timestamp.s))

\* the object literal of lines 12-16
Activity(now, status, message) ==
    [timestamp |-> IsoString(now), status |-> status, message |-> message]

StatusMessage(status) ==
    IF status = "sent" THEN <<"Reminder sent">> ELSE <<"Failed to send reminder">>

IndexOfKey(st, key) ==
    IF \E i \in 1..Len(st) : st[i].key = key
    THEN CHOOSE i \in 1..Len(st) : st[i].key = key
    ELSE 0

\* localStorage.getItem(key)
getItem(st, key) ==
    IF IndexOfKey(st, key) = 0 THEN Null ELSE st[IndexOfKey(st, key)].value

\* localStorage.setItem(key, value); pos is where a new key comes to stand
setItem(st, key, value, pos) ==
    IF IndexOfKey(st, key) # 0
    THEN [st EXCEPT ![IndexOfKey(st, key)].value = value]
    ELSE SubSeq(st, 1, pos - 1) \o <<[key |-> key, value |-> value]>>
             \o SubSeq(st, pos, Len(st))

\* the positions setItem may give the key
Positions(st, key) == IF IndexOfKey(st, key) # 0 THEN {1} ELSE 1..(Len(st) + 1)

\* localStorage.removeItem(localStorage.key(i - 1))
RemoveAt(st, i) == SubSeq(st, 1, i - 1) \o SubSeq(st, i + 1, Len(st))

\* the loop of lines 34-45, from index i on
RECURSIVE Sweep(_, _, _)
Sweep(st, i, oneHourAgo) ==
    IF i > Len(st) THEN st
    ELSE IF IsActivityKey(st[i].key)
            /\ GetTime(Parse(st[i].value).timestamp) < oneHourAgo
         THEN Sweep(RemoveAt(st, i), i + 1, oneHourAgo)
         ELSE Sweep(st, i + 1, oneHourAgo)

cleanupOldReminderActivity_Eager(st, now) == Sweep(st, 1, now)

cleanupOldReminderActivity(st, now) == Sweep(st, 1, now - HourMinutes)

getRecentReminderActivity_NoWindow(st, poNumber, now) ==
    IF getItem(st, ActivityKey(poNumber)) # Null
    THEN Parse(getItem(st, ActivityKey(poNumber)))
    ELSE Null

getRecentReminderActivity(st, poNumber, now) ==
    LET stored == getItem(st, ActivityKey(poNumber))
    IN  IF stored # Null /\ GetTime(Parse(stored).timestamp) > now - HourMinutes
        THEN Parse(stored)
        ELSE Null

\* trackReminderActivity(poNumber, status, message).  When setItem throws
\* (quota exceeded) the catch of line 22 ends the call: nothing is written
\* and the sweep does not run.
TrackReminderActivity ==
    /\ \E poNumber \in TrackPos, status \in Statuses, quota \in BOOLEAN :
          LET activity == Activity(clock, status, StatusMessage(status))
              key == ActivityKey(poNumber)
          IN  IF quota
              THEN /\ store' = store
                   /\ act' = [fn |-> "track", po |-> poNumber, stored |-> FALSE, ret |-> Null]
              ELSE /\ \E pos \in Positions(store, key) :
                         store' = cleanupOldReminderActivity(
                                      setItem(store, key, Stringify(activity), pos), clock)
                   /\ act' = [fn |-> "track", po |-> poNumber, stored |-> TRUE, ret |-> Null]
    /\ UNCHANGED <<clock, dlg>>
    /\ UNCHANGED <<raw, hint, nres, apiBase, db, call, persisted, op, aggVars>>

GetRecentReminderActivity ==
    /\ \E poNumber \in TrackPos :
          act' = [fn |-> "get", po |-> poNumber, stored |-> FALSE,
                  ret |-> getRecentReminderActivity(store, poNumber, clock)]
    /\ UNCHANGED <<store, clock, dlg>>
    /\ UNCHANGED <<raw, hint, nres, apiBase, db, call, persisted, op, aggVars>>

\* time passes between two calls
Advance ==
    /\ \E d \in ClockSteps : clock + d <= MaxClock /\ clock' = clock + d
    /\ act' = NoAct
    /\ UNCHANGED <<store, dlg>>
    /\ UNCHANGED <<raw, hint, nres, apiBase, db, call, persisted, op, aggVars>>

InitTracker ==
    /\ ServicesIdle
    /\ store \in {<<>>, <<ForeignEntry>>}
    /\ clock = 0
    /\ act = NoAct
    /\ dlg = IdleDialog("reminder")

NextTracker ==
    \/ TrackReminderActivity
    \/ GetRecentReminderActivity
    \/ Advance

SpecTracker == InitTracker /\ [][NextTracker]_vars

-----------------------------------------------------------------------------
(* The send dialogs, src/components/send-reminder-dialog.tsx and            *)
(* src/components/send-invoice-dialog.tsx: the component state isOpen,      *)
(* isSending, sendResult, the handler handleSendReminder/handleSendInvoice  *)
(* with its audit call, and the pending timeouts of the automatic close.    *)

\* pending setTimeout callbacks followed at once
MaxTimers == 2

DialogKinds == {"reminder", "invoice"}

\* what the awaited sendReminder(poNumber) / sendInvoice(invoiceData,
\* poNumber, recipient.trim()) may resolve to
DialogSendResults(kind) ==
    IF ~apiBase THEN {SvcFailure(ConfigError)}
    ELSE IF kind = "reminder"
         THEN {sendReminderEnd(o, Str(PO9)) : o \in ServiceOutcomes("sendReminder")}
         ELSE {sendInvoiceEnd(o) : o \in ServiceOutcomes("sendInvoice")}

\* answers to POST /log-action
AuditOutcomes ==
    {Reject(m) : m \in TransportMessages}
    \cup {Response(500, <<"Internal Server Error">>, JsonBody(EmptyObj)),
          Response(200, <<"OK">>, JsonBody(EmptyObj))}

\* action: success ? "..._SUCCESS" : "..._FAILED"
ActionVerb(kind, success) ==
    IF kind = "reminder"
    THEN (IF success THEN "REMINDER_SENT_SUCCESS" ELSE "REMINDER_SENT_FAILED")
    ELSE (IF success THEN "INVOICE_SENT_SUCCESS" ELSE "INVOICE_SENT_FAILED")

\* the body logSendReminderAction / logSendInvoiceAction posts
AuditBody(kind, success, errorMessage) ==
    [action |-> ActionVerb(kind, success), actor |-> "system", approved |-> success,
     error |-> errorMessage]

logSendAction_Rethrow(o) ==
    IF o.kind = "reject" THEN [kind |-> "rejected", msg |-> o.msg] ELSE [kind |-> "resolved"]

\* how the promise of logSendReminderAction / logSendInvoiceAction settles
\* once its fetch is answered by o: the status is not read, a rejection is caught
logSendAction(o) == [kind |-> "resolved"]

\* result.message || default, result.error || default
SuccessMessage(kind, result) ==
    JsOr(result.message,
         IF kind = "reminder"
         THEN Str(<<"Reminder sent successfully for PO ">> \o PO9)
         ELSE Str(<<"Invoice sent successfully">>))

ErrorMessage(kind, result) ==
    JsOr(result.error,
         IF kind = "reminder" THEN Str(<<"Failed to send reminder">>)
         ELSE Str(<<"Failed to send invoice">>))

ShownResult(kind, result) ==
    IF result.success
    THEN [success |-> TRUE, message |-> SuccessMessage(kind, result)]
    ELSE [success |-> FALSE, message |-> ErrorMessage(kind, result)]

\* the handler after its audit call resolved: on success the automatic close
\* is scheduled; finally setIsSending(false)
AfterAudit(d) ==
    [d EXCEPT !.pc = "idle", !.isSending = FALSE,
              !.timers = IF d.sent.success THEN @ + 1 ELSE @]

\* the catch block of the handler, then finally
HandlerCatch(d, msg) ==
    [d EXCEPT !.pc = "idle", !.isSending = FALSE,
              !.sendResult = [success |-> FALSE, message |-> Str(msg)],
              !.reported = [success |-> FALSE, message |-> Str(msg)]]

dialogFrame ==
    UNCHANGED <<raw, hint, nres, apiBase, db, call, persisted, op, aggVars, store, clock, act>>

\* the trigger is clicked: onOpenChange(true)
OpenDialog ==
    /\ ~dlg.isOpen
    /\ dlg' = [dlg EXCEPT !.isOpen = TRUE]
    /\ dialogFrame

\* Escape, the overlay or the close icon: onOpenChange(false)
DismissDialog ==
    /\ dlg.isOpen
    /\ dlg' = [dlg EXCEPT !.isOpen = FALSE, !.sendResult = Null]
    /\ dialogFrame

\* the Cancel / Close button: onClick={() => setIsOpen(false)}
CancelButton ==
    /\ dlg.isOpen /\ ~dlg.isSending
    /\ dlg' = [dlg EXCEPT !.isOpen = FALSE]
    /\ dialogFrame

\* the Send button, enabled unless isSending || sendResult?.success
ClickSend ==
    /\ dlg.isOpen /\ ~dlg.isSending
    /\ ~(dlg.sendResult # Null /\ dlg.sendResult.success)
    /\ dlg.timers < MaxTimers
    /\ dlg' = [dlg EXCEPT !.isSending = TRUE, !.sendResult = Null, !.pc = "sending",
                          !.sent = NoOutcome, !.audit = NoOutcome, !.posts = <<>>,
                          !.reported = Null]
    /\ dialogFrame

\* the awaited send resolves: setSendResult, toast, then the audit call
SendSettles ==
    /\ dlg.pc = "sending"
    /\ \E result \in DialogSendResults(dlg.kind) :
          LET shown == ShownResult(dlg.kind, result)
              d == [dlg EXCEPT !.sent = result, !.sendResult = shown, !.reported = shown]
              errorMessage == IF result.success THEN Undef ELSE shown.message
          IN  dlg' = IF ~apiBase THEN AfterAudit(d)
                     ELSE [d EXCEPT !.pc = "audit",
                                    !.posts = Append(@, AuditBody(dlg.kind, result.success,
                                                                  errorMessage))]
    /\ dialogFrame

\* the fetch of the audit call settles
AuditSettles ==
    /\ dlg.pc = "audit"
    /\ \E o \in AuditOutcomes :
          LET d == [dlg EXCEPT !.audit = o]
          IN  dlg' = IF logSendAction(o).kind = "resolved" THEN AfterAudit(d)
                     ELSE HandlerCatch(d, logSendAction(o).msg)
    /\ dialogFrame

\* setTimeout(() => setIsOpen(false), 2000) comes due
TimerFires ==
    /\ dlg.timers > 0
    /\ dlg' = [dlg EXCEPT !.timers = @ - 1, !.isOpen = FALSE]
    /\ dialogFrame

InitDialog ==
    /\ raw = EmptyObj
    /\ hint = Undef
    /\ nres = Pending
    /\ apiBase \in BOOLEAN
    /\ db = [po \in POs |-> NoRecord]
    /\ call = IdleCall
    /\ persisted = {}
    /\ op = IdleOp
    /\ AggregatorIdle
    /\ store = <<>>
    /\ clock = 0
    /\ act = NoAct
    /\ dlg \in {IdleDialog(kind) : kind \in DialogKinds}

NextDialog ==
    \/ OpenDialog
    \/ DismissDialog
    \/ CancelButton
    \/ ClickSend
    \/ SendSettles
    \/ AuditSettles
    \/ TimerFires

SpecDialog == InitDialog /\ [][NextDialog]_vars

-----------------------------------------------------------------------------
(* Claims about the normalizer, checked under SpecNormalize *)

IsJsonObject(v) == Truthy(v) /\ TypeOf(v) = "object"
Returned == nres.kind = "invoice"

Populated(v) == ~IsNullish(v)

InvoicePopulated(inv) ==
    /\ inv.invoice_id.t = "string" /\ inv.invoice_id.s # <<>>
    /\ Populated(inv.invoice_date) /\ Populated(inv.due_date)
    /\ Populated(inv.payment_terms) /\ Populated(inv.shipping_method)
    /\ \A k \in ContactKeys : Populated(inv.bill_to[k]) /\ Populated(inv.vendor[k])
    /\ \A i \in 1..Len(inv.items) :
          \A k \in {"description", "qty", "unit", "unit_price", "total"} :
              Populated(inv.items[i][k])
    /\ \A k \in SummaryKeys : Populated(inv.summary[k])
    /\ Populated(inv.notes) /\ Populated(inv.payment_status)

\* C1: every invoice the normalizer returns has a non-empty string id and no
\* undefined or null field: dates, terms, shipping method, all bill-to and
\* vendor fields, all fields of every item, all summary fields, notes and
\* payment status.
C1_NormalizerTotality == Returned => InvoicePopulated(nres.inv)

\* C1 witness: an invoice returned for an input whose notes are null and
\* whose bill_to is null.
C1_Witness ==
    \/ Returned /\ Get(raw, "notes") = Null
    \/ Returned /\ Get(raw, "bill_to") = Null /\ Get(raw, "billTo") = Undef

IsValidIdString(v) == v.t = "string" /\ Trim(v.s) # <<>>

\* the identifier lookup of the code yields a usable string
LookupResolves(d) == ~InvoiceIdInvalid(RawInvoiceId(d))

\* id = "INV-" po "-" digits "-" 3 digits
IsFallbackIdFor(id, po) ==
    LET n == Len(id)
        p == Len(po)
    IN  /\ n >= p + 10
        /\ SubSeq(id, 1, 4) = <<"I", "N", "V", "-">>
        /\ SubSeq(id, 5, 4 + p) = po
        /\ id[5 + p] = "-"
        /\ AllDigits(SubSeq(id, 6 + p, n - 4))
        /\ id[n - 3] = "-"
        /\ AllDigits(SubSeq(id, n - 2, n))

\* C4 (as claimed): on a JSON object the normalizer fails exactly when no
\* identifier resolves and no PO hint is supplied; without an identifier
\* but with a hint it returns an invoice whose id is INV-{po}-{digits}-{3
\* digits}; no other missing or malformed field makes it fail.
C4_OnlyHardFailure ==
    (nres # Pending /\ IsJsonObject(raw)) =>
        LET d == actualDataOf(raw)
        IN  /\ ~Returned <=> (~LookupResolves(d) /\ hint = Undef)
            /\ (~LookupResolves(d) /\ hint # Undef) =>
                  /\ Returned
                  /\ IsFallbackIdFor(nres.inv.invoice_id.s, hint.s)

IdResolves(d) == \E i \in 1..Len(IdKeys) : IsValidIdString(Get(d, IdKeys[i]))

FirstValidId(d) ==
    LET i == CHOOSE j \in 1..Len(IdKeys) :
                 /\ IsValidIdString(Get(d, IdKeys[j]))
                 /\ \A h \in 1..(j - 1) : ~IsValidIdString(Get(d, IdKeys[h]))
    IN  Trim(Get(d, IdKeys[i]).s)

\* C5 (as claimed): whenever one of invoice_id, invoiceId, id,
\* invoice_number holds a string that is non-empty after trimming, the
\* normalizer returns an invoice whose id is the trimmed value of the first
\* such key in that order, whatever the other keys hold.
C5_FirstValidIdWins ==
    (nres # Pending /\ nres.kind # "throw" /\ IsJsonObject(raw)
        /\ IdResolves(actualDataOf(raw))) =>
        /\ Returned
        /\ nres.inv.invoice_id = Str(FirstValidId(actualDataOf(raw)))

IsNonNullObject(v) == v.t \in {"object", "array"}

C6_Order == <<"data", "invoice", "result", "response">>

C6_Selected(r) ==
    IF \E i \in 1..Len(C6_Order) : IsNonNullObject(Get(r, C6_Order[i]))
    THEN LET i == CHOOSE j \in 1..Len(C6_Order) :
                     /\ IsNonNullObject(Get(r, C6_Order[j]))
                     /\ \A h \in 1..(j - 1) : ~IsNonNullObject(Get(r, C6_Order[h]))
         IN  Get(r, C6_Order[i])
    ELSE r

\* C6: the outcome of normalizing a JSON object is the outcome of reading
\* every field, the identifier included, from the value of the first key
\* among data, invoice, result, response that holds a non-null object, or
\* from the raw object when there is none; with a valid data.invoice_id and a
\* top-level invoice_id both present, the resulting id is data.invoice_id.
C6_WrapperPriority ==
    (nres # Pending /\ IsJsonObject(raw)) =>
        /\ \E now \in Clock, rnd \in Rnd :
              nres = NormalizeData(C6_Selected(raw), hint, now, rnd)
        /\ ( /\ Returned
             /\ IsNonNullObject(Get(raw, "data"))
             /\ IsValidIdString(Get(Get(raw, "data"), "invoice_id"))
             /\ Get(raw, "invoice_id") # Undef ) =>
               nres.inv.invoice_id = Str(Trim(Get(Get(raw, "data"), "invoice_id").s))

\* C6 witness: data is null, invoice and result both hold objects with their
\* own ids, a top-level invoice_id is present, and the id returned is the
\* invoice wrapper's.
C6_Witness ==
    /\ Returned
    /\ Get(raw, "data") = Null
    /\ IsValidIdString(Get(Get(raw, "invoice"), "invoice_id"))
    /\ IsValidIdString(Get(Get(raw, "result"), "invoice_id"))
    /\ Get(raw, "invoice_id") # Undef
    /\ nres.inv.invoice_id = Get(Get(raw, "invoice"), "invoice_id")
    /\ nres.inv.notes = Get(Get(raw, "invoice"), "notes")

\* a number, or a string holding a numeric literal
IsNumeric(v) ==
    \/ v.t = "number"
    \/ v.t = "string" /\ Trim(v.s) # <<>> /\ ToNumber(v).t = "number"

IsMissingOrNonNumeric(v) ==
    \/ v.t \in {"undefined", "null", "object"}
    \/ v.t = "string" /\ ~IsNumeric(v)

\* C7 (as claimed): for every item, qty is the numeric value of the upstream
\* qty when that is numeric and 1 when it is missing or non-numeric;
\* unit_price is the numeric value of unit_price, else of unitPrice, when
\* numeric, and 0 when both are missing or non-numeric.
C7_NumericCoercion ==
    (Returned /\ IsJsonObject(raw) /\ Get(actualDataOf(raw), "items").t = "array") =>
        \A i \in 1..Len(nres.inv.items) :
            LET item == Get(actualDataOf(raw), "items").a[i]
                out == nres.inv.items[i]
                qty == Get(item, "qty")
                up == Get(item, "unit_price")
                upc == Get(item, "unitPrice")
            IN  /\ IsNumeric(qty) => out.qty = ToNumber(qty)
                /\ IsMissingOrNonNumeric(qty) => out.qty = Whole(1)
                /\ IsNumeric(up) => out.unit_price = ToNumber(up)
                /\ (IsMissingOrNonNumeric(up) /\ IsNumeric(upc)) =>
                      out.unit_price = ToNumber(upc)
                /\ (IsMissingOrNonNumeric(up) /\ IsMissingOrNonNumeric(upc)) =>
                      out.unit_price = Whole(0)

-----------------------------------------------------------------------------
(* Claims about generateAIInvoice, checked under SpecGenerate *)

Returns == call.pc = "done"

\* the generation step met a transport-level failure: fetch rejected, or the
\* body of a 2xx answer could not be read
TransportFailed(o) ==
    \/ o.kind = "reject"
    \/ o.kind = "response" /\ Ok(o) /\ o.body.kind = "broken"

IsPlaceholder(inv, po) ==
    /\ inv # Undef
    /\ IsFallbackIdFor(inv.invoice_id.s, po)
    /\ inv.bill_to.company = Str(<<"Unknown Company">>)
    /\ inv.vendor.company = Str(<<"Unknown Vendor">>)
    /\ inv.items = <<>>
    /\ \A k \in SummaryKeys : inv.summary[k] = Whole(0)
    /\ inv.notes.t = "string"
    /\ \E i \in 1..Len(inv.notes.s) : SubSeq(inv.notes.s, i, i + Len(po) - 1) = po
    /\ InvoicePopulated(inv)

\* C2 (as claimed): whenever the generation request, or a later step before
\* persistence, fails with a transport-level exception, generateAIInvoice
\* returns success with source "generated" and a complete placeholder
\* invoice, never a failure.
C2_TransportFailureFallsBack ==
    (Returns /\ TransportFailed(call.gen)) =>
        /\ call.result.success
        /\ call.result.source = "generated"
        /\ IsPlaceholder(call.result.invoice, call.po)

NormalizesTo(v, po, kind) ==
    \A now \in GenClock, rnd \in GenRnd :
        validateAndNormalizeInvoiceResponse(v, Str(po), now, rnd).kind = kind

OkJson(o) == o.kind = "response" /\ Ok(o) /\ o.body.kind = "json"
OkText(o) == o.kind = "response" /\ Ok(o) /\ o.body.kind = "text"

\* the generation answer is a non-2xx status, an unparsable 2xx body, or a
\* 2xx body the normalizer rejects
GenerationRefused(o, po) ==
    \/ o.kind = "response" /\ ~Ok(o)
    \/ o.kind = "response" /\ Ok(o) /\ o.body.kind = "text"
    \/ OkJson(o) /\ NormalizesTo(o.body.v, po, "null")

\* C3 (as claimed): generateAIInvoice returns source "generated" only after
\* a transport-level failure; any other exception raised while generating, a
\* parse error or a processing error, yields success=false carrying that
\* exception's message; a non-2xx answer, an unparsable body or a
\* normalization failure never produces a fallback invoice.
C3_OtherExceptionsCarryMessage ==
    Returns =>
        /\ call.result.source = "generated" => TransportFailed(call.gen)
        /\ (OkJson(call.gen) /\ NormalizesTo(call.gen.body.v, call.po, "throw")) =>
              /\ ~call.result.success
              /\ call.result.error = Str(NullItemMessage)
        /\ OkText(call.gen) =>
              /\ ~call.result.success
              /\ call.result.error = Str(JsonParseMessage(call.gen.body.txt))
        /\ GenerationRefused(call.gen, call.po) =>
              /\ ~call.result.success
              /\ call.result.source # "generated"

\* C3 (amended): generateAIInvoice returns source "generated" only after a
\* transport-level failure of the generation step; an exception raised while
\* processing the parsed answer yields success=false with that exception's
\* message; an unparsable 2xx body yields success=false with the fixed
\* message "Invalid JSON response from server" and the raw text attached,
\* not the parse exception's message; a non-2xx answer, an unparsable body
\* or a normalization failure yields a failure without invoice, never a
\* fallback.
C3_FallbackOnlyAfterTransportFailure ==
    Returns =>
        /\ call.result.source = "generated" => TransportFailed(call.gen)
        /\ (OkJson(call.gen) /\ NormalizesTo(call.gen.body.v, call.po, "throw")) =>
              /\ ~call.result.success
              /\ call.result.error = Str(NullItemMessage)
              /\ call.result.invoice = Undef
        /\ OkText(call.gen) =>
              /\ ~call.result.success
              /\ call.result.error = Str(<<"Invalid JSON response from server">>)
              /\ call.result.error # Str(JsonParseMessage(call.gen.body.txt))
              /\ call.result.rawResponse = Str(call.gen.body.txt)
        /\ GenerationRefused(call.gen, call.po) =>
              /\ ~call.result.success
              /\ call.result.source # "generated"
              /\ call.result.invoice = Undef

\* C3 witness: a 2xx generation body with a null item made the normalizer
\* throw and the invocation returned that exception's message, or a 2xx
\* body that is not JSON made the invocation return the fixed message.
C3_Witness ==
    \/ /\ Returns
       /\ OkJson(call.gen)
       /\ NormalizesTo(call.gen.body.v, call.po, "throw")
       /\ call.result.error = Str(NullItemMessage)
    \/ /\ Returns
       /\ OkText(call.gen)
       /\ call.result.error = Str(<<"Invalid JSON response from server">>)

\* the lookup ended without a usable answer: 404, another non-2xx status, an
\* unparsable or unreadable body, or a rejected fetch
CheckFailed(o) ==
    \/ o.kind = "reject"
    \/ o.kind = "response" /\ (o.status = 404 \/ ~Ok(o))
    \/ o.kind = "response" /\ Ok(o) /\ o.body.kind \in {"text", "broken"}

\* C8: after a lookup that ended with 404, another non-2xx status, an
\* unparsable body or a transport exception, the generation request is issued
\* and the invocation does not return before the generation answer; after a
\* persistence request, whatever its answer (non-2xx or transport exception
\* included), the invocation returns success with source "api" and the
\* generated invoice.
C8_SideStepsNeverFail ==
    /\ CheckFailed(call.check) =>
          /\ call.reqs = <<GetByPo, PostAiInvoice>> \/
             call.reqs = <<GetByPo, PostAiInvoice, PostInvoices>>
          /\ Returns => call.gen # NoOutcome
    /\ (Returns /\ call.save # NoOutcome) =>
          /\ call.result.success
          /\ call.result.source = "api"
          /\ call.result.invoice = call.normalized
          /\ call.normalized # Undef

\* C8 witness: the lookup and the persistence request both met a transport
\* exception and the invocation returned the generated invoice.
C8_Witness ==
    /\ Returns
    /\ call.check.kind = "reject"
    /\ call.save.kind = "reject"
    /\ call.result.success
    /\ call.result.source = "api"

\* the lookup answered 2xx with a body that normalizes to an invoice
CheckFound(o, po) == OkJson(o) /\ NormalizesTo(o.body.v, po, "invoice")

\* C9: once the lookup has returned a stored invoice that normalizes, the
\* invocation has returned success with source "database" and that invoice,
\* and its only request is the lookup: no generation, no persistence request.
C9_StoredInvoiceShortCircuits ==
    (call.check # NoOutcome /\ CheckFound(call.check, call.po)) =>
        /\ Returns
        /\ call.result.success
        /\ call.result.source = "database"
        /\ \E now \in GenClock, rnd \in GenRnd :
              call.result.invoice =
                  validateAndNormalizeInvoiceResponse(call.check.body.v, Str(call.po),
                                                      now, rnd).inv
        /\ call.reqs = <<GetByPo>>
        /\ call.gen = NoOutcome /\ call.save = NoOutcome

\* C9 witness: the lookup returned the record stored for this PO and the
\* invocation returned it from the database.
C9_Witness ==
    /\ Returns
    /\ OkJson(call.check)
    /\ call.check.body.v = db[call.po]
    /\ call.result.source = "database"

NoGenerationRequest == \A i \in 1..Len(call.reqs) : call.reqs[i] # PostAiInvoice

\* C10 (as claimed): when an earlier invocation for the same PO generated
\* its invoice and persisted it successfully, a later invocation returns
\* source "database" and issues no generation request.
C10_SecondCallFromDatabase ==
    (Returns /\ call.hadPersisted) =>
        /\ call.result.source = "database"
        /\ NoGenerationRequest

\* the lookup was answered 2xx with the record stored for the PO
AnsweredWithStored ==
    /\ OkJson(call.check)
    /\ db[call.po] # NoRecord
    /\ call.check.body.v = db[call.po]

\* field k of an invoice as it reads in JSON
JsonField(invoice, k) ==
    CASE k \in {"bill_to", "vendor", "summary"} -> Obj(invoice[k])
      [] k = "items" -> Arr([i \in 1..Len(invoice.items) |-> Obj(invoice.items[i])])
      [] OTHER -> invoice[k]

\* C10 (amended): when an earlier invocation for the same PO generated its
\* invoice and persisted it successfully, a later invocation whose lookup is
\* answered 2xx with the stored record returns source "database" with the
\* stored invoice, field for field, and issues no generation request.
C10_StoredRecordServesLaterCall ==
    (call.hadPersisted /\ AnsweredWithStored) =>
        /\ Returns
        /\ call.result.source = "database"
        /\ NoGenerationRequest
        /\ \A k \in DOMAIN call.result.invoice :
              JsonField(call.result.invoice, k) = Get(db[call.po], k)

\* C10 witness: a later invocation for a PO persisted earlier got the stored
\* record and returned it.
C10_Witness ==
    /\ Returns
    /\ call.hadPersisted
    /\ AnsweredWithStored
    /\ call.result.source = "database"
    /\ Len(call.result.invoice.items) > 0

-----------------------------------------------------------------------------
(* Claims about the four services, checked under SpecServices *)

OpReturned(name) == op.pc = "done" /\ op.name = name

\* C11 (as claimed): no invocation of generateAIInvoice, updateInvoice,
\* sendReminder or sendInvoice ends in an exception that reaches the caller;
\* every finished invocation holds a result whose success flag is a boolean.
C11_NoExceptionEscapes ==
    /\ op.pc # "threw"
    /\ \A name \in {"updateInvoice", "sendReminder", "sendInvoice"} :
          OpReturned(name) => op.result.success \in BOOLEAN
    /\ Returns => call.result.success \in BOOLEAN

ValidationErrors ==
    {Str(<<"PO number is required">>), Str(<<"PO number cannot be empty">>),
     Str(<<"PO number contains invalid characters">>),
     Str(<<"Invoice ID is required for updates">>),
     Str(<<"Recipient email address is required">>),
     Str(<<"Please provide a valid email address">>),
     Str(<<"Invoice ID is missing">>), Str(<<"Invoice total is invalid">>),
     Str(<<"Invoice must contain at least one item">>)}

\* C12: an invocation of generateAIInvoice, updateInvoice, sendReminder or
\* sendInvoice that has returned a validation error (blank PO number, blank
\* invoice id, disallowed characters, invalid recipient or invoice content)
\* has issued no HTTP request.
C12_ValidationBeforeNetwork ==
    /\ \A name \in {"updateInvoice", "sendReminder", "sendInvoice"} :
          (OpReturned(name) /\ op.result.error \in ValidationErrors) =>
              op.reqs = <<>> /\ op.ans = NoOutcome /\ ~op.result.success
    /\ (Returns /\ call.result.error = Str(<<"Purchase Order number is required">>)) =>
          call.reqs = <<>> /\ ~call.result.success

\* C12 witness: sendInvoice with the endpoint configured returned the items
\* message, and sendReminder returned the invalid-characters message.
C12_Witness ==
    \/ /\ OpReturned("sendInvoice") /\ apiBase
       /\ op.result.error = Str(<<"Invoice must contain at least one item">>)
    \/ /\ OpReturned("sendReminder") /\ apiBase
       /\ op.result.error = Str(<<"PO number contains invalid characters">>)

\* C13: with the base endpoint unset, generateAIInvoice for a non-blank PO
\* number returns success=false with the configuration error and issues no
\* request, neither lookup nor generation; sendReminder returns the
\* configuration error whether or not its PO number is valid, without request.
C13_ConfigUnset ==
    ~apiBase =>
        /\ call.pc \in {"idle", "done"}
        /\ (Returns /\ call.po # <<>>) =>
              /\ ~call.result.success
              /\ call.result.error = Str(ConfigError)
              /\ call.reqs = <<>>
        /\ op.name = "sendReminder" =>
              /\ op.pc = "done"
              /\ ~op.result.success
              /\ op.result.error = Str(ConfigError)
              /\ op.reqs = <<>>

\* C13 witness: with the endpoint unset, sendReminder was given a PO number
\* that fails validation and returned the configuration error.
C13_Witness ==
    /\ ~apiBase
    /\ OpReturned("sendReminder")
    /\ validatePoNumber(op.args.poNumber) # Null
    /\ op.result.error = Str(ConfigError)

IsText(v) == v.t = "string" /\ v.s # <<>>

\* the server-provided message as the claim ranks it: the body's message,
\* else its error, else the status text
ServerMessage(o) ==
    IF o.body.kind = "json" /\ IsText(Get(o.body.v, "message"))
    THEN Get(o.body.v, "message").s
    ELSE IF o.body.kind = "json" /\ IsText(Get(o.body.v, "error"))
         THEN Get(o.body.v, "error").s
    ELSE o.statusText

\* err ends with msg
Carries(err, msg) ==
    /\ err.t = "string"
    /\ Len(err.s) >= Len(msg)
    /\ SubSeq(err.s, Len(err.s) - Len(msg) + 1, Len(err.s)) = msg

\* C14 (as claimed): after a non-2xx answer of the generation endpoint,
\* generateAIInvoice returns success=false whose error carries the body's
\* message field if present, else its error field, else the HTTP status
\* text; it returns no invoice and persists nothing.
C14_NonSuccessCarriesServerMessage ==
    (Returns /\ call.gen.kind = "response" /\ ~Ok(call.gen)) =>
        /\ ~call.result.success
        /\ call.result.invoice = Undef
        /\ call.save = NoOutcome
        /\ \A i \in 1..Len(call.reqs) : call.reqs[i] # PostInvoices
        /\ Carries(call.result.error, ServerMessage(call.gen))

ReminderSent(o) == OkJson(o) /\ Get(o.body.v, "status") = Str(<<"reminder_sent">>)

\* C15 (as claimed): sendReminder returns success=true exactly when the
\* dispatch endpoint answered 2xx with a body whose status is the literal
\* "reminder_sent"; after a 2xx answer with any other body it returns
\* success=false with that body as details.
C15_ReminderSentLiteral ==
    OpReturned("sendReminder") =>
        /\ op.result.success <=> ReminderSent(op.ans)
        /\ (OkJson(op.ans) /\ ~ReminderSent(op.ans)) =>
              /\ ~op.result.success
              /\ op.result.details = op.ans.body.v

\* letters, digits, hyphen, underscore
AllowedPoChars ==
    {LetterChars[j] : j \in 1..Len(LetterChars)}
        \cup {DigitChars[j] : j \in 1..Len(DigitChars)} \cup {"-", "_"}

WellFormedPo(v) ==
    /\ v.t = "string"
    /\ Trim(v.s) # <<>>
    /\ \A i \in 1..Len(Trim(v.s)) : Trim(v.s)[i] \in AllowedPoChars

\* C16: canSendReminder(po) is true exactly when po, trimmed, is non-empty
\* and made of letters, digits, hyphens and underscores only, and it issues
\* no request; sendReminder with the endpoint configured returns a
\* validation error without any request exactly when canSendReminder(po) is
\* false.
C16_CanSendReminder ==
    /\ OpReturned("canSendReminder") =>
          /\ op.result = Bool(WellFormedPo(op.args.poNumber))
          /\ op.reqs = <<>> /\ op.ans = NoOutcome
    /\ (apiBase /\ op.name = "sendReminder") =>
          (( /\ op.pc = "done"
             /\ op.result.error \in ValidationErrors
             /\ op.reqs = <<>> )
           <=> ~canSendReminder(op.args.poNumber))

\* C16 witness: canSendReminder answered true for a PO number with lower
\* case letters, an underscore and a hyphen, or false for one with a space
\* inside, and sendReminder refused a PO number with a "#".
C16_Witness ==
    \/ /\ OpReturned("canSendReminder")
       /\ op.args.poNumber = Str(<<"p", "o", "_", "1", "-", "A">>)
       /\ op.result = Bool(TRUE)
    \/ /\ OpReturned("canSendReminder")
       /\ op.args.poNumber = Str(<<"P", "O", " ", "1">>)
       /\ op.result = Bool(FALSE)
    \/ /\ OpReturned("sendReminder") /\ apiBase
       /\ op.args.poNumber = Str(<<"P", "O", "#", "1">>)
       /\ op.reqs = <<>>

\* the recipient was supplied and is empty after trimming
RecipientBlank(r) == r.t = "string" /\ Trim(r.s) = <<>>

\* C17 (as claimed): sendInvoice checks, in this order, recipient required,
\* recipient shape, non-empty invoice id, numeric summary total, non-empty
\* items, and returns the message of the first failing check: an empty
\* recipient fails with the recipient-required message before any other
\* check; a valid recipient with no items fails with the items message.
C17_ValidationOrder ==
    (apiBase /\ op.name = "sendInvoice" /\ op.pc \in {"wait", "done"}
        /\ op.args.recipient # Undef) =>
        LET r == op.args.recipient
            inv == op.args.invoiceData
            idOk == IsText(inv.invoice_id) /\ Trim(inv.invoice_id.s) # <<>>
            totalOk == inv.summary.total.t \in {"number", "NaN"}
            refusedWith(m) == op.pc = "done" /\ op.reqs = <<>> /\ op.result.error = Str(<<m>>)
        IN  /\ RecipientBlank(r) => refusedWith("Recipient email address is required")
            /\ (~RecipientBlank(r) /\ ~emailRegex(Trim(r.s))) =>
                  refusedWith("Please provide a valid email address")
            /\ (~RecipientBlank(r) /\ emailRegex(Trim(r.s)) /\ ~idOk) =>
                  refusedWith("Invoice ID is missing")
            /\ (~RecipientBlank(r) /\ emailRegex(Trim(r.s)) /\ idOk /\ ~totalOk) =>
                  refusedWith("Invoice total is invalid")
            /\ (~RecipientBlank(r) /\ emailRegex(Trim(r.s)) /\ idOk /\ totalOk
                    /\ Len(inv.items) = 0) =>
                  refusedWith("Invoice must contain at least one item")

\* C18 (as claimed): sendInvoice returns success=true only after a 2xx
\* answer whose body has success equal to the boolean true; after a 2xx
\* answer whose body has success missing, false or not a boolean it returns
\* success=false.
C18_ExplicitBooleanSuccess ==
    OpReturned("sendInvoice") =>
        /\ op.result.success =>
              OkJson(op.ans) /\ Get(op.ans.body.v, "success") = Bool(TRUE)
        /\ (OkJson(op.ans) /\ Get(op.ans.body.v, "success") # Bool(TRUE)) =>
              ~op.result.success

-----------------------------------------------------------------------------
(* Claims about the error aggregator, checked under SpecErrors *)

\* C19: the aggregator never holds more than 50 records; after n logError
\* calls the buffer holds exactly the most recent min(n, 50) logged records,
\* in logging order, each as it was logged at the time it entered.
C19_BufferBound ==
    LET n == Len(logged)
        k == IF n < 50 THEN n ELSE 50
    IN  /\ Len(errors) = k
        /\ \A i \in 1..Len(errors) :
              /\ errors[i] = n - k + i
              /\ heap[errors[i]].timestamp = logged[n - k + i].timestamp

\* C19 witness: 60 errors were logged, the buffer holds the 11th to the 60th.
C19_Witness ==
    /\ Len(logged) = 60
    /\ Len(errors) = 50
    /\ errors[1] = 11
    /\ errors[50] = 60

\* C20 (as claimed): nothing a caller does through an array returned by
\* getErrors, or through the elements of that array, changes the state of
\* the aggregator: every record the buffer holds is as logError stored it.
C20_SnapshotIsolation ==
    \A i \in 1..Len(errors) : heap[errors[i]] = logged[errors[i]]

-----------------------------------------------------------------------------
(* Claims about requests, ordering and identifiers *)

NoRepeat(s) == \A i, j \in 1..Len(s) : i # j => s[i] # s[j]

\* C23: no operation retries: within one invocation of generateAIInvoice,
\* updateInvoice, sendReminder or sendInvoice each backend endpoint is
\* requested at most once, whatever the answers or failures.
C23_NoRetry ==
    /\ NoRepeat(call.reqs)
    /\ NoRepeat(op.reqs)
    /\ Len(op.reqs) <= 1

\* C23 witness: an invocation of a dispatch or update service whose fetch was
\* rejected has returned, and a generateAIInvoice invocation whose lookup was
\* rejected and whose generation was refused with a 5xx has returned.
C23_Witness ==
    \/ OpReturned("sendReminder") /\ op.ans.kind = "reject" /\ Len(op.reqs) = 1
    \/ /\ Returns
       /\ call.check.kind = "reject"
       /\ call.gen.kind = "response" /\ ~Ok(call.gen)
       /\ call.reqs = <<GetByPo, PostAiInvoice>>

Issued(req) == \E i \in 1..Len(call.reqs) : call.reqs[i] = req

Answered ==
    Cardinality({k \in {"check", "gen", "save"} : call[k] # NoOutcome})

\* C25: within one generateAIInvoice invocation the generation POST is issued
\* only after the existence check has completed without a usable record, the
\* persistence POST only after a 2xx generation answer was parsed and
\* normalized, and at most one request of the invocation is in flight.
C25_StrictlySequential ==
    /\ Issued(PostAiInvoice) =>
          /\ call.check # NoOutcome
          /\ ~CheckFound(call.check, call.po)
          /\ call.reqs[1] = GetByPo /\ call.reqs[2] = PostAiInvoice
    /\ Issued(PostInvoices) =>
          /\ OkJson(call.gen)
          /\ NormalizesTo(call.gen.body.v, call.po, "invoice")
          /\ call.normalized # Undef
          /\ call.reqs = <<GetByPo, PostAiInvoice, PostInvoices>>
    /\ Len(call.reqs) - Answered \in {0, 1}
    /\ Returns => Len(call.reqs) = Answered

\* C25 witness: an invocation went through lookup, generation and
\* persistence and returned.
C25_Witness ==
    /\ Returns
    /\ call.reqs = <<GetByPo, PostAiInvoice, PostInvoices>>
    /\ call.save # NoOutcome

BlankId(updatePayload) ==
    LET id == Get(updatePayload, "invoice_id")
    IN  id = Undef \/ (id.t = "string" /\ Trim(id.s) = <<>>)

\* C26 (as claimed): with the base endpoint unset and an empty invoice id in
\* the payload, updateInvoice returns the validation error (invoice id
\* required), not the configuration error.
C26_UpdateValidatesFirst ==
    (OpReturned("updateInvoice") /\ ~apiBase /\ BlankId(op.args.updatePayload)) =>
        op.result.error = Str(<<"Invoice ID is required for updates">>)

\* C26 (amended): updateInvoice checks the configuration before it validates
\* its input, as the reminder service does: with the base endpoint unset it
\* returns the configuration error whatever the payload's invoice id, and
\* issues no request; with the endpoint set an empty invoice id yields the
\* validation error without a request.
C26_UpdateChecksConfigFirst ==
    op.name = "updateInvoice" =>
        /\ ~apiBase =>
              /\ op.pc = "done"
              /\ ~op.result.success
              /\ op.result.error = Str(ConfigError)
              /\ op.reqs = <<>>
        /\ (apiBase /\ BlankId(op.args.updatePayload)) =>
              /\ op.pc = "done"
              /\ op.result.error = Str(<<"Invoice ID is required for updates">>)
              /\ op.reqs = <<>>

\* C26 witness: with the endpoint unset, updateInvoice was given an empty
\* invoice id and returned the configuration error.
C26_Witness ==
    /\ ~apiBase
    /\ OpReturned("updateInvoice")
    /\ BlankId(op.args.updatePayload)
    /\ op.result.error = Str(ConfigError)

\* the body, unwrapped, holds one of the four identifier keys
CarriesIdentifier(v) ==
    \E k \in IdKeySet : Get(actualDataOf(v), k) # Undef

\* C29 (as claimed): generateAIInvoice returns source "database" only when
\* the existence check returned a record carrying its own identifier; a 2xx
\* lookup body without any of the four identifier keys is not reported as an
\* existing invoice and does not suppress the generation request.
C29_DatabaseOnlyForIdentifiedRecord ==
    /\ (Returns /\ call.result.source = "database") =>
          OkJson(call.check) /\ CarriesIdentifier(call.check.body.v)
    /\ (Returns /\ OkJson(call.check) /\ ~CarriesIdentifier(call.check.body.v)) =>
          Issued(PostAiInvoice)

\* C30 (as claimed): whenever updateInvoice returns success=true, the id of
\* the returned invoice equals the invoice_id of the submitted payload,
\* whatever the 2xx body, bodies that omit the identifier included.
C30_UpdateKeepsInvoiceId ==
    (OpReturned("updateInvoice") /\ op.result.success) =>
        op.result.invoice.invoice_id = Get(op.args.updatePayload, "invoice_id")

-----------------------------------------------------------------------------
(* Claims about the reminder activity cache, checked under SpecTracker *)

\* minutes since the record of entry e was written
AgeOf(e) == clock - GetTime(Parse(e.value).timestamp)

\* C21 (as claimed): after every trackReminderActivity call that wrote its
\* record, no key of the reminder_activity_ scheme holds a record whose
\* timestamp is older than 1 hour: the sweep has visited every key of the
\* scheme and deleted every expired one.
C21_SweepLeavesNoExpired ==
    (act.fn = "track" /\ act.stored) =>
        \A i \in 1..Len(store) :
            IsActivityKey(store[i].key) => AgeOf(store[i]) <= 60

EntryOf(po) == store[IndexOfKey(store, ActivityKey(po))]
Present(po) == IndexOfKey(store, ActivityKey(po)) # 0

\* C22: getRecentReminderActivity(po) returns the stored record while its
\* timestamp is less than 1 hour old and null once it is more than 1 hour
\* old (returned 30 minutes after the write, null 61 minutes after it), also
\* when the expired record is still in storage; it returns null when
\* nothing is stored.
C22_ReadWindow ==
    act.fn = "get" =>
        /\ ~Present(act.po) => act.ret = Null
        /\ (Present(act.po) /\ AgeOf(EntryOf(act.po)) < 60) =>
              act.ret = Parse(EntryOf(act.po).value)
        /\ (Present(act.po) /\ AgeOf(EntryOf(act.po)) > 60) => act.ret = Null

\* C22 witness: a record read 61 minutes after it was written is still in
\* storage, no sweep having removed it, and null was returned.
C22_Witness ==
    /\ act.fn = "get"
    /\ Present(act.po)
    /\ AgeOf(EntryOf(act.po)) = 61
    /\ act.ret = Null

Retrievable(st, po, now) == getRecentReminderActivity(st, po, now) # Null

KeysOnce(st) == \A i, j \in 1..Len(st) : st[i].key = st[j].key => i = j

\* C27: under any interleaving of trackReminderActivity and
\* getRecentReminderActivity calls for different PO numbers each PO has a
\* single slot: a write for one PO changes only that PO's record and leaves
\* every other PO's record that is within its 1-hour window in place,
\* unaltered and retrievable; a read changes nothing.
C27_PerPoSlot ==
    [][ /\ act'.fn = "track" =>
              /\ KeysOnce(store')
              /\ \A q \in TrackPos \ {act'.po} :
                    Retrievable(store, q, clock) =>
                        /\ getItem(store', ActivityKey(q)) = getItem(store, ActivityKey(q))
                        /\ getRecentReminderActivity(store', q, clock')
                               = getRecentReminderActivity(store, q, clock)
        /\ act'.fn = "get" => store' = store
      ]_vars

\* C27 witness: a write for one PO, made 30 or 31 minutes after another PO's
\* record was written, has run its sweep, and the other PO's record is
\* retrievable.
C27_Witness ==
    /\ act.fn = "track" /\ act.stored
    /\ \E q \in TrackPos \ {act.po} :
          /\ Present(q)
          /\ AgeOf(EntryOf(q)) \in {30, 31}
          /\ Retrievable(store, q, clock)

-----------------------------------------------------------------------------
(* Claims about the send dialogs, checked under SpecDialog *)

\* C24: the audit call is best-effort: whatever the answer of /log-action
\* (non-2xx or transport failure included) the handler ends normally and the
\* outcome reported to the user is the outcome of the send; the posted verb
\* is the *_SUCCESS verb exactly when the send succeeded, else the *_FAILED
\* verb, and the approved flag equals the send's success.
C24_AuditBestEffort ==
    /\ dlg.audit # NoOutcome =>
          /\ dlg.pc = "idle" /\ ~dlg.isSending
          /\ dlg.reported = ShownResult(dlg.kind, dlg.sent)
          /\ dlg.reported.success = dlg.sent.success
    /\ Len(dlg.posts) <= 1
    /\ \A i \in 1..Len(dlg.posts) :
          /\ dlg.sent # NoOutcome
          /\ dlg.posts[i].approved = dlg.sent.success
          /\ dlg.posts[i].action =
                (CASE dlg.kind = "reminder" /\ dlg.sent.success -> "REMINDER_SENT_SUCCESS"
                   [] dlg.kind = "reminder" /\ ~dlg.sent.success -> "REMINDER_SENT_FAILED"
                   [] dlg.kind = "invoice" /\ dlg.sent.success -> "INVOICE_SENT_SUCCESS"
                   [] OTHER -> "INVOICE_SENT_FAILED")

\* C24 witness: the send succeeded, the audit request met a transport
\* failure, and the success is what the dialog reported.
C24_Witness ==
    /\ dlg.audit # NoOutcome
    /\ dlg.audit.kind = "reject"
    /\ dlg.sent.success
    /\ dlg.reported.success
    /\ dlg.posts[1].action = "INVOICE_SENT_SUCCESS"

\* C28 (as claimed): in every state where the dialog is closed, by the
\* Cancel/Close button, by the automatic close after a successful send or by
\* dismissing it, sendResult is null.
C28_ClosedDialogHasNoResult ==
    ~dlg.isOpen => dlg.sendResult = Null

====
